---- MODULE Spec2Model ----
(***************************************************************************)
(* webm-writer-js: the seekable blob sink (BlobBuffer), the EBML tree      *)
(* serializer (writeEBML) and the WebM muxer (WebMWriter) as one state     *)
(* machine.  Bytes are numbers 0..255, byte strings are sequences.         *)
(***************************************************************************)
EXTENDS Integers, Sequences, FiniteSets, TLC

VARIABLES
    mode,       \* BlobBuffer destination: "mem", "fs" (fd + fs) or "fileWriter"
    buffer,     \* BlobBuffer.buffer: the chunk list, entries {offset, data, length}
    pos,        \* BlobBuffer.pos
    length,     \* BlobBuffer.length
    chain,      \* BlobBuffer.writePromise: every callback chained so far, in order
    heap,       \* the contents of the caller's ArrayBuffer that written views share
    file,       \* the bytes of the destination file (fs and fileWriter modes)
    call,       \* the last public sink call and whether it threw
    mux         \* the WebMWriter closure state

vars == <<mode, buffer, pos, length, chain, heap, file, call, mux>>

----------------------------------------------------------------------------
(* Bounds of the model *)

\* The number of callbacks chained on writePromise (writes and completes).
MaxOps == 3

----------------------------------------------------------------------------
(* Byte-string helpers *)

Max(a, b) == IF a > b THEN a ELSE b

RECURSIVE Concat(_)
Concat(ss) == IF ss = <<>> THEN <<>> ELSE Head(ss) \o Concat(Tail(ss))

\* `base` with `bs` laid over it from 0-based offset `off`, zero-filled and
\* extended as a positional file write does.
Overlay(base, off, bs) ==
    LET padded == base \o [i \in 1..(off - Len(base)) |-> 0]
    IN  SubSeq(padded, 1, off) \o bs \o SubSeq(padded, off + Len(bs) + 1, Len(padded))

----------------------------------------------------------------------------
(* The data a caller can hand to BlobBuffer.write.  A record names the     *)
(* kind: a Blob, a string (UTF-16 code units), a Uint8Array over the       *)
(* caller's ArrayBuffer ("U8", a view of `len` bytes from `off`), that     *)
(* ArrayBuffer itself ("AB"), or a Uint8Array with a buffer of its own      *)
(* ("Own": what reading a Blob yields, and what the muxer writes).         *)

BlobOf(bs) == [k |-> "Blob", b |-> bs, off |-> 0, len |-> Len(bs)]
StrOf(cs)  == [k |-> "Str", b |-> cs, off |-> 0, len |-> Len(cs)]
U8Of(o, n) == [k |-> "U8", b |-> <<>>, off |-> o, len |-> n]
ABOf(n)    == [k |-> "AB", b |-> <<>>, off |-> 0, len |-> n]
OwnOf(bs)  == [k |-> "Own", b |-> bs, off |-> 0, len |-> Len(bs)]

\* The UTF-8 bytes of a string of code units below 2048 (what new Blob([s]) holds).
RECURSIVE UTF8(_)
UTF8(cs) ==
    IF cs = <<>> THEN <<>>
    ELSE LET c == Head(cs)
         IN  (IF c < 128 THEN <<c>> ELSE <<192 + (c \div 64), 128 + (c % 64)>>)
             \o UTF8(Tail(cs))

\* The bytes `d` denotes while the caller's ArrayBuffer holds `h`.
Bytes(d, h) ==
    CASE d.k = "Blob" -> d.b
      [] d.k = "Str"  -> UTF8(d.b)
      [] d.k = "U8"   -> SubSeq(h, d.off + 1, d.off + d.len)
      [] d.k = "AB"   -> h
      [] d.k = "Own"  -> d.b

\* readBlobAsBuffer(blob): the blob's bytes in an ArrayBuffer of their own.
readBlobAsBuffer(d) == IF d.k = "Str" THEN UTF8(d.b) ELSE d.b

\* convertToUint8Array(thing): a Uint8Array is returned as it is, an
\* ArrayBuffer is wrapped in a view that shares it, a Blob or anything else
\* is read into a new array.
convertToUint8Array(thing, h) ==
    CASE thing.k \in {"U8", "Own"} -> thing
      [] thing.k = "AB"            -> U8Of(0, Len(h))
      [] OTHER                     -> OwnOf(readBlobAsBuffer(thing))

\* measureData(data): data.byteLength || data.length || data.size, which
\* must be an integer.  A zero byteLength or length falls through the ||
\* chain; only a Blob has a size, so only an empty Blob measures 0 and
\* every other empty item ends at undefined and throws.  A string measures
\* its number of code units.
measureData(data) ==
    LET result == IF data.k \in {"Str", "Blob"} THEN Len(data.b) ELSE data.len
    IN  [ok |-> IF data.k = "Blob" THEN TRUE ELSE result > 0, v |-> result]

----------------------------------------------------------------------------
(* BlobBuffer: the synchronous half of the public calls, on the record     *)
(* bb = [pos, length, writePromise].  A chained callback is a record; its  *)
(* st is "queued" until it runs, then the point its promise has reached.   *)

Entry(o, d, n) == [offset |-> o, data |-> d, length |-> n]

\* st: "queued", then "readOld"/"readNew" (memory overwrite), "conv"/"fsWrite"
\* (fs), "fw" (FileWriter), and at the end "done", "failed" or "skipped".
\* res: what the promise resolved with ("blob", "null"), err: what it rejected
\* with.  len0 and bytes0 remember the length before the call and the bytes
\* the data held at the call.
WriteTask(o, d, n, app, len0, b0) ==
    [typ |-> "write", offset |-> o, data |-> d, length |-> n, isAppend |-> app,
     st |-> "queued", idx |-> 0, tw |-> 0, res |-> "", blob |-> <<>>, err |-> "",
     len0 |-> len0, bytes0 |-> b0]

CompleteTask ==
    [typ |-> "complete", offset |-> 0, data |-> OwnOf(<<>>), length |-> 0,
     isAppend |-> FALSE, st |-> "queued", idx |-> 0, tw |-> 0, res |-> "",
     blob |-> <<>>, err |-> "", len0 |-> 0, bytes0 |-> <<>>]

\* An offset handed to seek: NaN, or a number.
NaN == [nan |-> TRUE, v |-> 0]
Num(n) == [nan |-> FALSE, v |-> n]

\* seek(offset) with the end-of-file check left out.
seekError_NoEndCheck(bb, offset) ==
    IF ~offset.nan /\ offset.v < 0 THEN "Offset may not be negative"
    ELSE IF offset.nan THEN "Offset may not be NaN"
    ELSE ""

\* seek(offset): which error the three checks raise, "" when none.
seekError(bb, offset) ==
    IF ~offset.nan /\ offset.v < 0 THEN "Offset may not be negative"
    ELSE IF offset.nan THEN "Offset may not be NaN"
    ELSE IF offset.v > bb.length THEN "Seeking beyond the end of file is not allowed"
    ELSE ""

seek(bb, offset) ==
    IF seekError(bb, offset) # "" THEN bb
    ELSE [bb EXCEPT !.pos = offset.v]

\* write(data): the entry is built, pos and length advance, and the callback
\* is chained; h is the caller's ArrayBuffer at the call (kept for reference).
write(bb, data, h) ==
    LET m == measureData(data)
        newPos == bb.pos + m.v
    IN  IF ~m.ok THEN bb
        ELSE [pos |-> newPos,
              length |-> Max(bb.length, newPos),
              writePromise |-> Append(bb.writePromise,
                  WriteTask(bb.pos, data, m.v, bb.pos >= bb.length,
                            bb.length, Bytes(data, h)))]

\* complete(mimeType): one more callback on the chain, whose promise is returned.
complete(bb) == [bb EXCEPT !.writePromise = Append(bb.writePromise, CompleteTask)]

----------------------------------------------------------------------------
(* BlobBuffer: the callbacks chained on writePromise.  Callback i runs     *)
(* once the promise before it is fulfilled; a rejection passes down the    *)
(* chain without running anything.                                         *)

\* The promise before callback i resolves as soon as its callback returns,
\* as it would had the callback not returned its inner promise.
PrevFulfilled_NoAwait(i) ==
    IF i = 1 THEN TRUE ELSE chain[i - 1].st \notin {"queued", "failed", "skipped"}

\* A callback chained on a rejected promise runs all the same, as one
\* chained behind a catch() would.
PrevFulfilled_AfterRejection(i) ==
    IF i = 1 THEN TRUE ELSE chain[i - 1].st \in {"done", "failed", "skipped"}

PrevFulfilled(i) == IF i = 1 THEN TRUE ELSE chain[i - 1].st = "done"

PrevRejected(i) == IF i = 1 THEN FALSE ELSE chain[i - 1].st \in {"failed", "skipped"}

\* The loop's tests on one buffered entry.
Disjoint(newEntry, entry) ==
    \/ newEntry.offset + newEntry.length <= entry.offset
    \/ newEntry.offset >= entry.offset + entry.length

Crosses(newEntry, entry) ==
    \/ newEntry.offset < entry.offset
    \/ newEntry.offset + newEntry.length > entry.offset + entry.length

\* The first entry of the linear search that the new entry overlaps, 0 when none.
FirstOverlap(buf, newEntry) ==
    LET hits == {i \in 1..Len(buf) : ~Disjoint(newEntry, buf[i])}
    IN  IF hits = {} THEN 0 ELSE CHOOSE i \in hits : \A j \in hits : i <= j

\* new Blob(result): the chunks' data one after the other.
BlobBytes(buf, h) == Concat([i \in 1..Len(buf) |-> Bytes(buf[i].data, h)])

\* The callback of complete() runs.
RunComplete(i) ==
    /\ chain' = [chain EXCEPT ![i].st = "done",
                              ![i].res = IF mode = "mem" THEN "blob" ELSE "null",
                              ![i].blob = IF mode = "mem" THEN BlobBytes(buffer, heap)
                                          ELSE <<>>]
    /\ UNCHANGED <<buffer, heap, file>>

\* The callback of write() runs, memory backend.
RunWriteMem(i) ==
    LET t == chain[i]
        k == IF t.isAppend THEN 0 ELSE FirstOverlap(buffer, t)
    IN  IF k = 0
        THEN /\ buffer' = Append(buffer, Entry(t.offset, t.data, t.length))
             /\ chain' = [chain EXCEPT ![i].st = "done"]
             /\ UNCHANGED <<heap, file>>
        ELSE IF Crosses(t, buffer[k])
        THEN /\ chain' = [chain EXCEPT ![i].st = "failed",
                                       ![i].err = "Overwrite crosses blob boundaries"]
             /\ UNCHANGED <<buffer, heap, file>>
        ELSE IF t.offset = buffer[k].offset /\ t.length = buffer[k].length
        THEN /\ buffer' = [buffer EXCEPT ![k].data = t.data]
             /\ chain' = [chain EXCEPT ![i].st = "done"]
             /\ UNCHANGED <<heap, file>>
        ELSE /\ chain' = [chain EXCEPT ![i].st = "readOld", ![i].idx = k]
             /\ UNCHANGED <<buffer, heap, file>>

\* The callback of write() runs, fs backend: _writeToFs starts converting.
RunWriteFs(i) ==
    /\ chain' = [chain EXCEPT ![i].st = "conv"]
    /\ UNCHANGED <<buffer, heap, file>>

\* The callback of write() runs, FileWriter backend: seek, then write a Blob
\* made of the data as it is now.
RunWriteFileWriter(i) ==
    /\ chain' = [chain EXCEPT ![i].st = "fw",
                              ![i].data = BlobOf(Bytes(chain[i].data, heap))]
    /\ UNCHANGED <<buffer, heap, file>>

RunTask(i) ==
    /\ chain[i].st = "queued"
    /\ PrevFulfilled(i)
    /\ IF chain[i].typ = "complete" THEN RunComplete(i)
       ELSE IF mode = "fs" THEN RunWriteFs(i)
       ELSE IF mode = "fileWriter" THEN RunWriteFileWriter(i)
       ELSE RunWriteMem(i)
    /\ UNCHANGED <<mode, pos, length, call, mux>>

\* A callback chained on a rejected promise never runs.
SkipTask(i) ==
    /\ chain[i].st = "queued"
    /\ PrevRejected(i)
    /\ chain' = [chain EXCEPT ![i].st = "skipped", ![i].err = chain[i - 1].err]
    /\ UNCHANGED <<mode, buffer, pos, length, heap, file, call, mux>>

\* Overwrite, first then(): the old entry's data has been converted.
ReadOldDone(i) ==
    /\ chain[i].st = "readOld"
    /\ buffer' = [buffer EXCEPT ![chain[i].idx].data =
                      convertToUint8Array(buffer[chain[i].idx].data, heap)]
    /\ chain' = [chain EXCEPT ![i].st = "readNew"]
    /\ UNCHANGED <<mode, pos, length, heap, file, call, mux>>

\* The second then() without its entry.data.set(...): the promise resolves
\* and the buffered chunk keeps its old bytes.
ReadNewDone_NoSet(i) ==
    /\ chain[i].st = "readNew"
    /\ chain' = [chain EXCEPT ![i].st = "done"]
    /\ UNCHANGED <<mode, buffer, pos, length, heap, file, call, mux>>

\* Overwrite, second then(): the new data has been converted and
\* entry.data.set(newEntry.data, newEntry.offset - entry.offset) runs; set
\* throws a RangeError when the source does not fit.
ReadNewDone(i) ==
    /\ chain[i].st = "readNew"
    /\ LET t == chain[i]
           k == t.idx
           dst == buffer[k].data
           src == Bytes(convertToUint8Array(t.data, heap), heap)
           rel == t.offset - buffer[k].offset
       IN  IF rel + Len(src) > dst.len
           THEN /\ chain' = [chain EXCEPT ![i].st = "failed",
                                          ![i].err = "RangeError: offset is out of bounds"]
                /\ UNCHANGED <<buffer, heap>>
           ELSE /\ chain' = [chain EXCEPT ![i].st = "done"]
                /\ IF dst.k = "Own"
                   THEN /\ buffer' = [buffer EXCEPT ![k].data =
                                          OwnOf(Overlay(dst.b, rel, src))]
                        /\ UNCHANGED heap
                   ELSE /\ heap' = Overlay(heap, dst.off + rel, src)
                        /\ UNCHANGED buffer
    /\ UNCHANGED <<mode, pos, length, file, call, mux>>

\* Buffer.from(dataArray.buffer): the whole ArrayBuffer under the array.
FsBuffer(dataArray, h) == IF dataArray.k = "U8" THEN h ELSE dataArray.b

\* _writeToFs: the data is converted and the first fs.write is issued.
FsConverted(i) ==
    /\ chain[i].st = "conv"
    /\ chain' = [chain EXCEPT ![i].st = "fsWrite", ![i].tw = 0,
                              ![i].data = convertToUint8Array(chain[i].data, heap)]
    /\ UNCHANGED <<mode, buffer, pos, length, heap, file, call, mux>>

\* handleWriteComplete that resolves after the first fs.write, whatever the
\* count.
FsWriteCallback_NoRetry(i, written) ==
    /\ chain[i].st = "fsWrite"
    /\ LET t == chain[i]
           buf == FsBuffer(t.data, heap)
           totalWritten == t.tw + written
       IN  /\ written \in (IF Len(buf) = t.tw THEN 0 ELSE 1)..(Len(buf) - t.tw)
           /\ file' = Overlay(file, t.offset + t.tw, SubSeq(buf, t.tw + 1, totalWritten))
           /\ chain' = [chain EXCEPT ![i].tw = totalWritten, ![i].st = "done"]
    /\ UNCHANGED <<mode, buffer, pos, length, heap, call, mux>>

\* handleWriteComplete(err, written, buffer): fs.write has put `written` bytes
\* of the buffer, from buffer offset totalWritten, at the file position
\* newEntry.offset + totalWritten; the rest is written by the next fs.write.
FsWriteCallback(i, written) ==
    /\ chain[i].st = "fsWrite"
    /\ LET t == chain[i]
           buf == FsBuffer(t.data, heap)
           totalWritten == t.tw + written
       IN  /\ written \in (IF Len(buf) = t.tw THEN 0 ELSE 1)..(Len(buf) - t.tw)
           /\ file' = Overlay(file, t.offset + t.tw, SubSeq(buf, t.tw + 1, totalWritten))
           /\ chain' = [chain EXCEPT ![i].tw = totalWritten,
                                     ![i].st = IF totalWritten >= Len(buf) THEN "done"
                                               ELSE "fsWrite"]
    /\ UNCHANGED <<mode, buffer, pos, length, heap, call, mux>>

\* _writeToFileWriter: onwriteend fires, the blob is in the file.
FileWriterWriteEnd(i) ==
    /\ chain[i].st = "fw"
    /\ file' = Overlay(file, chain[i].offset, chain[i].data.b)
    /\ chain' = [chain EXCEPT ![i].st = "done"]
    /\ UNCHANGED <<mode, buffer, pos, length, heap, call, mux>>

----------------------------------------------------------------------------
(* The sink driven directly by a caller *)

HeapInit == <<30, 31>>

\* What the caller writes: a Blob, a string of one code unit outside ASCII,
\* a one-byte view into the caller's ArrayBuffer, an empty Blob and an
\* empty string.
Items ==
    {BlobOf(<<10, 11>>), StrOf(<<200>>), U8Of(1, 1), BlobOf(<<>>), StrOf(<<>>)}

BB == [pos |-> pos, length |-> length, writePromise |-> chain]

NoMux == [phase |-> "none"]

Init ==
    /\ mode = "mem"
    /\ buffer = <<>>
    /\ pos = 0
    /\ length = 0
    /\ chain = <<>>
    /\ heap = HeapInit
    /\ file = <<>>
    /\ call = [op |-> "new", arg |-> Num(0), threw |-> FALSE]
    /\ mux = NoMux

Seek(offset) ==
    /\ pos' = seek(BB, offset).pos
    /\ call' = [op |-> "seek", arg |-> offset, threw |-> seekError(BB, offset) # ""]
    /\ UNCHANGED <<mode, buffer, length, chain, heap, file, mux>>

Write(data) ==
    /\ Len(chain) < MaxOps
    /\ LET r == write(BB, data, heap)
       IN  /\ pos' = r.pos
           /\ length' = r.length
           /\ chain' = r.writePromise
    /\ call' = [op |-> "write", arg |-> Num(measureData(data).v),
                threw |-> ~measureData(data).ok]
    /\ UNCHANGED <<mode, buffer, heap, file, mux>>

Complete ==
    /\ Len(chain) < MaxOps
    /\ chain' = complete(BB).writePromise
    /\ call' = [op |-> "complete", arg |-> Num(0), threw |-> FALSE]
    /\ UNCHANGED <<mode, buffer, pos, length, heap, file, mux>>

\* The offsets a caller tries: NaN, -1, and everything up to one past the end.
SeekInputs == {NaN} \cup {Num(n) : n \in (0 - 1)..(length + 1)}

\* The memory backend on its own: new BlobBuffer().
Next ==
    \/ \E o \in SeekInputs : Seek(o)
    \/ \E d \in Items : Write(d)
    \/ Complete
    \/ \E i \in 1..Len(chain) : RunTask(i)
    \/ \E i \in 1..Len(chain) : SkipTask(i)
    \/ \E i \in 1..Len(chain) : ReadOldDone(i)
    \/ \E i \in 1..Len(chain) : ReadNewDone(i)

Spec == Init /\ [][Next]_vars

\* All three backends: new BlobBuffer(), new BlobBuffer(fd, fs) and
\* new BlobBuffer(fileWriter), written to with a Blob and a view.
ItemsModes == {BlobOf(<<10, 11>>), U8Of(1, 1)}

InitModes ==
    /\ mode \in {"mem", "fs", "fileWriter"}
    /\ buffer = <<>>
    /\ pos = 0
    /\ length = 0
    /\ chain = <<>>
    /\ heap = HeapInit
    /\ file = <<>>
    /\ call = [op |-> "new", arg |-> Num(0), threw |-> FALSE]
    /\ mux = NoMux

NextModes ==
    \/ \E o \in SeekInputs : Seek(o)
    \/ \E d \in ItemsModes : Write(d)
    \/ Complete
    \/ \E i \in 1..Len(chain) : RunTask(i)
    \/ \E i \in 1..Len(chain) : SkipTask(i)
    \/ \E i \in 1..Len(chain) : ReadOldDone(i)
    \/ \E i \in 1..Len(chain) : ReadNewDone(i)
    \/ \E i \in 1..Len(chain) : FsConverted(i)
    \/ \E i \in 1..Len(chain) : \E written \in 0..Len(heap) : FsWriteCallback(i, written)
    \/ \E i \in 1..Len(chain) : FileWriterWriteEnd(i)

SpecModes == InitModes /\ [][NextModes]_vars

----------------------------------------------------------------------------
(* Numbers.  A JavaScript Number that holds a time is kept as a count of   *)
(* 1/2^TickBits milliseconds, which is exact for every time of the model.  *)

TickBits == 1
TicksPerMs == 2 ^ TickBits

Ms(n) == n * TicksPerMs

\* Math.round of a time that is not negative, in milliseconds.
Round(t) == (2 * t + TicksPerMs) \div (2 * TicksPerMs)

\* The binary digits of n, most significant first (none for 0).
RECURSIVE Bin(_)
Bin(n) == IF n = 0 THEN <<>> ELSE Bin(n \div 2) \o <<n % 2>>

\* n in `width` binary digits.
RECURSIVE BinW(_, _)
BinW(n, width) == IF width = 0 THEN <<>> ELSE BinW(n \div 2, width - 1) \o <<n % 2>>

\* Eight bits as a byte, and a string of bits as bytes.
ByteOf(bits) ==
    128 * bits[1] + 64 * bits[2] + 32 * bits[3] + 16 * bits[4]
    + 8 * bits[5] + 4 * bits[6] + 2 * bits[7] + bits[8]

PackBits(bits) ==
    [i \in 1..(Len(bits) \div 8) |-> ByteOf(SubSeq(bits, 8 * i - 7, 8 * i))]

\* The IEEE-754 binary64 encoding, big-endian, of the time t >= 0: sign 0,
\* the biased exponent of the leading digit, and the digits after it.
DoubleBE(t) ==
    IF t = 0 THEN [i \in 1..8 |-> 0]
    ELSE LET digits == Bin(t)
             exponent == Len(digits) - 1 - TickBits
         IN  PackBits(<<0>> \o BinW(1023 + exponent, 11) \o Tail(digits)
                      \o [i \in 1..(53 - Len(digits)) |-> 0])

----------------------------------------------------------------------------
(* ArrayBufferDataStream: a scratch buffer of fixed capacity with a        *)
(* cursor.  `data` holds the bytes written so far.                         *)

ArrayBufferDataStream(length_) == [data |-> <<>>, pos |-> 0, cap |-> length_]

writeBytes(stream, bs) ==
    [stream EXCEPT !.data = Overlay(@, stream.pos, bs), !.pos = @ + Len(bs)]

writeByte(stream, b) == writeBytes(stream, <<b % 256>>)

writeString(stream, s) == writeBytes(stream, UTF8(s))

\* n big-endian in `width` bytes.
RECURSIVE BE(_, _)
BE(n, width) == IF width = 0 THEN <<>> ELSE BE(n \div 256, width - 1) \o <<n % 256>>

writeU16BE(stream, n) == writeBytes(stream, BE(n % 65536, 2))

\* measureUnsignedInt() with each limit counted in: 2 bytes only above 2^8.
measureUnsignedInt_Inclusive(n) ==
    IF n <= 256 THEN 1
    ELSE IF n <= 65536 THEN 2
    ELSE IF n <= 16777216 THEN 3
    ELSE IF n \div 65536 < 65536 THEN 4
    ELSE 5

\* 1 below 2^8, 2 below 2^16, 3 below 2^24, 4 below 2^32, 5 from there on.
measureUnsignedInt(n) ==
    IF n < 256 THEN 1
    ELSE IF n < 65536 THEN 2
    ELSE IF n < 16777216 THEN 3
    ELSE IF n \div 65536 < 65536 THEN 4
    ELSE 5

\* writeUnsignedIntBE(n, width); width 0 stands for the argument left out.
writeUnsignedIntBE(stream, n, width) ==
    writeBytes(stream, BE(n, IF width = 0 THEN measureUnsignedInt(n) ELSE width))

\* The marker bit of an EBML varint of `width` bytes, set in its first byte.
WithMarker(bs, width) ==
    LET marker == 2 ^ (8 - width)
    IN  [bs EXCEPT ![1] = IF (@ \div marker) % 2 = 1 THEN @ ELSE @ + marker]

writeEBMLVarIntWidth(stream, n, width) ==
    writeBytes(stream, WithMarker(BE(n, width), width))

\* The width with the all-ones pattern allowed: w with n < 2^(7w).
VarIntWidth_AllOnes(n) ==
    IF n < 128 THEN 1
    ELSE IF n < 16384 THEN 2
    ELSE IF n < 2097152 THEN 3
    ELSE IF n < 268435456 THEN 4
    ELSE 5

\* The smallest width w with n < 2^(7w) - 1.
VarIntWidth(n) ==
    IF n < 127 THEN 1
    ELSE IF n < 16383 THEN 2
    ELSE IF n < 2097151 THEN 3
    ELSE IF n < 268435455 THEN 4
    ELSE 5

writeEBMLVarInt(stream, n) == writeEBMLVarIntWidth(stream, n, VarIntWidth(n))

writeDoubleBE(stream, t) == writeBytes(stream, DoubleBE(t))

streamSeek(stream, p) == [stream EXCEPT !.pos = p]

\* getAsDataArray(): the bytes [0, pos).
getAsDataArray(stream) ==
    SubSeq(stream.data \o [i \in 1..(stream.pos - Len(stream.data)) |-> 0], 1, stream.pos)

----------------------------------------------------------------------------
(* EBML trees.  t names the shape: "arr" an array of siblings, "str" a     *)
(* string, "u8" a Uint8Array, "num" a number, "f64" an EBMLFloat64, "el"   *)
(* an element.  An element's size, offset and dataOffset are 0 until set.  *)

EBML_SIZE_UNKNOWN == -1
EBML_SIZE_UNKNOWN_5_BYTES == -2

Arr(items) == [t |-> "arr", items |-> items]
Str(s) == [t |-> "str", s |-> s]
U8(b) == [t |-> "u8", b |-> b]
NumD(n) == [t |-> "num", n |-> n]
EBMLFloat64(value) == [t |-> "f64", value |-> value]

ElSized(id, data, size) ==
    [t |-> "el", id |-> id, data |-> data, size |-> size, offset |-> 0, dataOffset |-> 0]

El(id, data) == ElSized(id, data, 0)

\* writeEBML(buffer, bufferFileOffset, ebml): the stream after the write,
\* and ebml with the offsets and sizes the write stores in it.
RECURSIVE writeEBML(_, _, _)

\* The loop handing the children a file offset of 0.
RECURSIVE writeEBMLArray_NoFileOffset(_, _, _, _)
writeEBMLArray_NoFileOffset(written, bufferFileOffset, ebml, i) ==
    LET Turn(r) == [buf |-> r.buf, items |-> Append(written.items, r.e)]
    IN  IF written.buf.pos < 0 \/ i > Len(ebml) THEN written
        ELSE writeEBMLArray_NoFileOffset(Turn(writeEBML(written.buf, 0, ebml[i])),
                                         bufferFileOffset, ebml, i + 1)

\* The for loop of writeEBML over an array, from item i on: `written` is the
\* stream and the items as the turns before i left them.
RECURSIVE writeEBMLArray(_, _, _, _)
writeEBMLArray(written, bufferFileOffset, ebml, i) ==
    LET Turn(r) == [buf |-> r.buf, items |-> Append(written.items, r.e)]
    IN  IF written.buf.pos < 0 \/ i > Len(ebml) THEN written
        ELSE writeEBMLArray(Turn(writeEBML(written.buf, bufferFileOffset, ebml[i])),
                            bufferFileOffset, ebml, i + 1)

writeEBML(bufferStream, bufferFileOffset, ebml) ==
    IF ebml.t = "arr"
    THEN LET Loop(written) == [buf |-> written.buf, e |-> Arr(written.items)]
         IN  Loop(writeEBMLArray([buf |-> bufferStream, items |-> <<>>],
                                 bufferFileOffset, ebml.items, 1))
    ELSE IF ebml.t = "str" THEN [buf |-> writeString(bufferStream, ebml.s), e |-> ebml]
    ELSE IF ebml.t = "u8" THEN [buf |-> writeBytes(bufferStream, ebml.b), e |-> ebml]
    ELSE
    LET offset == bufferStream.pos + bufferFileOffset
        unknown == ebml.size \in {EBML_SIZE_UNKNOWN, EBML_SIZE_UNKNOWN_5_BYTES}
        size == IF ebml.size = 0 THEN measureUnsignedInt(ebml.data.n) ELSE ebml.size
        \* the children written (r) after the id (b1) and the size field (b2)
        Children(b1, b2, r) ==
            [buf |-> IF unknown THEN r.buf
                     ELSE streamSeek(
                              writeEBMLVarIntWidth(streamSeek(r.buf, b1.pos),
                                                   r.buf.pos - b2.pos, 4),
                              r.buf.pos),
             e |-> [ebml EXCEPT !.offset = offset,
                                !.dataOffset = b2.pos + bufferFileOffset,
                                !.data = r.e,
                                !.size = IF unknown THEN @ ELSE r.buf.pos - b2.pos]]
        SizeField(b1, b2) == Children(b1, b2, writeEBML(b2, bufferFileOffset, ebml.data))
        \* the data written after the size (b2)
        Data(b2) ==
            IF ebml.data.t = "str"
            THEN [buf |-> writeString(b2, ebml.data.s),
                  e |-> [ebml EXCEPT !.offset = offset,
                                     !.dataOffset = b2.pos + bufferFileOffset]]
            ELSE IF ebml.data.t = "num"
            THEN [buf |-> writeUnsignedIntBE(b2, ebml.data.n, size),
                  e |-> [ebml EXCEPT !.offset = offset, !.size = size,
                                     !.dataOffset = b2.pos + bufferFileOffset]]
            ELSE IF ebml.data.t = "f64"
            THEN [buf |-> writeDoubleBE(b2, ebml.data.value),
                  e |-> [ebml EXCEPT !.offset = offset,
                                     !.dataOffset = b2.pos + bufferFileOffset]]
            ELSE \* a Uint8Array
                 [buf |-> writeBytes(b2, ebml.data.b),
                  e |-> [ebml EXCEPT !.offset = offset,
                                     !.dataOffset = b2.pos + bufferFileOffset]]
        Id(b1) ==
            IF ebml.data.t = "arr"
            THEN SizeField(b1, IF ebml.size = EBML_SIZE_UNKNOWN THEN writeByte(b1, 255)
                               ELSE IF ebml.size = EBML_SIZE_UNKNOWN_5_BYTES
                               THEN writeBytes(b1, <<15, 255, 255, 255, 255>>)
                               ELSE writeBytes(b1, <<0, 0, 0, 0>>))
            ELSE Data(writeEBMLVarInt(b1,
                         IF ebml.data.t = "str" THEN Len(ebml.data.s)
                         ELSE IF ebml.data.t = "num" THEN size
                         ELSE IF ebml.data.t = "f64" THEN 8
                         ELSE Len(ebml.data.b)))
    IN  Id(writeUnsignedIntBE(bufferStream, ebml.id, 0))

----------------------------------------------------------------------------
(* WebP.  A binary string is the sequence of its char codes.               *)

\* string.substring(from, to) for 0 <= from.
substring(string, from, to) ==
    SubSeq(string, from + 1, IF to > Len(string) THEN Len(string) ELSE to)

\* string.charCodeAt(i) | 0: a missing char counts 0.
charCodeAt(string, i) == IF i < Len(string) THEN string[i + 1] ELSE 0

byteStringToUint32LE(string) ==
    charCodeAt(string, 0) + 256 * charCodeAt(string, 1)
    + 65536 * charCodeAt(string, 2) + 16777216 * charCodeAt(string, 3)

\* webP.indexOf('VP8', from): 0-based, -1 when there is none.
indexOfVP8(webP, from) ==
    LET hits == {i \in from..(Len(webP) - 3) : substring(webP, i, i + 3) = <<86, 80, 56>>}
    IN  IF hits = {} THEN 0 - 1 ELSE CHOOSE i \in hits : \A j \in hits : i <= j

\* The chunk loop without the padding byte after a chunk of odd length.
RECURSIVE scanChunks_NoPadding(_, _, _)
scanChunks_NoPadding(webP, cursor, hasAlpha) ==
    IF ~(cursor < Len(webP) - 8)
    THEN [err |-> "Failed to find VP8 keyframe in WebP image, is this image mistakenly encoded in the Lossless WebP format?",
          frame |-> <<>>, hasAlpha |-> hasAlpha]
    ELSE LET fourCC == substring(webP, cursor, cursor + 4)
             chunkLength == byteStringToUint32LE(substring(webP, cursor + 4, cursor + 8))
             data == cursor + 8
         IN  IF fourCC = <<86, 80, 56, 32>>
             THEN [err |-> "", frame |-> substring(webP, data, data + chunkLength),
                   hasAlpha |-> hasAlpha]
             ELSE scanChunks_NoPadding(webP, data + chunkLength,
                                       hasAlpha \/ fourCC = <<65, 76, 80, 72>>)

\* The chunk loop of extractKeyframeFromWebP from `cursor` on.
RECURSIVE scanChunks(_, _, _)
scanChunks(webP, cursor, hasAlpha) ==
    IF ~(cursor < Len(webP) - 8)
    THEN [err |-> "Failed to find VP8 keyframe in WebP image, is this image mistakenly encoded in the Lossless WebP format?",
          frame |-> <<>>, hasAlpha |-> hasAlpha]
    ELSE LET fourCC == substring(webP, cursor, cursor + 4)
             chunkLength == byteStringToUint32LE(substring(webP, cursor + 4, cursor + 8))
             data == cursor + 8
         IN  IF fourCC = <<86, 80, 56, 32>>
             THEN [err |-> "", frame |-> substring(webP, data, data + chunkLength),
                   hasAlpha |-> hasAlpha]
             ELSE scanChunks(webP, data + chunkLength + (chunkLength % 2),
                             hasAlpha \/ fourCC = <<65, 76, 80, 72>>)

extractKeyframeFromWebP(webP) ==
    IF indexOfVP8(webP, 12) = 0 - 1
    THEN [err |-> "Bad image format, does this browser support WebP?",
          frame |-> <<>>, hasAlpha |-> FALSE]
    ELSE scanChunks(webP, indexOfVP8(webP, 12), FALSE)

----------------------------------------------------------------------------
(* WebMWriter.  A function of the closure takes and returns                 *)
(* s = [m, bb, err]: the closure's variables, the BlobBuffer's synchronous *)
(* fields, and the exception thrown so far ("" when none).                 *)

MAX_CLUSTER_DURATION_MSEC == 5000
DEFAULT_TRACK_NUMBER == 1

\* The rest of a function body, which runs only when nothing was thrown
\* before it: s is the state so far, rest what the rest makes of it.
Then(s, rest) == IF s.err # "" THEN s ELSE rest

\* blobBuffer.seek(offset) and blobBuffer.write(dataArray) from the closure.
sinkSeek(s, offset) ==
    IF seekError(s.bb, Num(offset)) # ""
    THEN [s EXCEPT !.err = seekError(s.bb, Num(offset))]
    ELSE [s EXCEPT !.bb = seek(s.bb, Num(offset))]

sinkWrite(s, dataArray) ==
    IF ~measureData(OwnOf(dataArray)).ok
    THEN [s EXCEPT !.err = "Failed to determine size of element"]
    ELSE [s EXCEPT !.bb = write(s.bb, OwnOf(dataArray), <<>>)]

\* fileOffsetToSegmentRelative() giving the offset of the first data byte of
\* an element whose id and size take 8 bytes.
fileOffsetToSegmentRelative_DataOffset(s, fileOffset) ==
    fileOffset + 8 - s.m.ebmlSegment.dataOffset

fileOffsetToSegmentRelative(s, fileOffset) == fileOffset - s.m.ebmlSegment.dataOffset

\* seekPoints: the ids, in the order of the for-in loop (Cues, SegmentInfo, Tracks).
seekPointIds == <<<<28, 83, 187, 107>>, <<21, 73, 169, 102>>, <<22, 84, 174, 107>>>>

\* createSeekHead(): one Seek per seek point, its SeekPosition 5 bytes wide
\* and 0 for now.
createSeekHead ==
    El(290298740,                                           \* 0x114D9B74 SeekHead
       Arr(<<>> \o [i \in 1..3 |->
            El(19899,                                        \* 0x4DBB Seek
               Arr(<<El(21419, U8(seekPointIds[i])),         \* 0x53AB SeekID
                     ElSized(21420, NumD(0), 5)>>))]))       \* 0x53AC SeekPosition

\* seekPoints[i].positionEBML.data = value, the object being the one in the SeekHead.
setSeekPosition(seekHead, i, value) ==
    [seekHead EXCEPT !.data.items[i].data.items[2].data = NumD(value)]

segmentDuration0 == El(17545, EBMLFloat64(0))                \* 0x4489 Duration

ebmlHeader ==
    El(440786851,                                            \* 0x1a45dfa3 EBML
       Arr(<<El(17030, NumD(1)),                             \* EBMLVersion
             El(17143, NumD(1)),                             \* EBMLReadVersion
             El(17138, NumD(4)),                             \* EBMLMaxIDLength
             El(17139, NumD(8)),                             \* EBMLMaxSizeLength
             El(17026, Str(<<119, 101, 98, 109>>)),          \* DocType "webm"
             El(17031, NumD(2)),                             \* DocTypeVersion
             El(17029, NumD(2))>>))                          \* DocTypeReadVersion

segmentInfo ==
    El(357149030,                                            \* 0x1549a966 Info
       Arr(<<El(2807729, NumD(1000000)),                     \* TimecodeScale
             El(19840, Str(<<119, 101, 98, 109, 45, 119, 114, 105, 116, 101, 114, 45, 106, 115>>)),
             El(22337, Str(<<119, 101, 98, 109, 45, 119, 114, 105, 116, 101, 114, 45, 106, 115>>)),
             segmentDuration0>>))

tracks(videoWidth, videoHeight, transparent) ==
    El(374648427,                                            \* 0x1654ae6b Tracks
       Arr(<<El(174,                                         \* TrackEntry
                Arr(<<El(215, NumD(DEFAULT_TRACK_NUMBER)),   \* TrackNumber
                      El(29637, NumD(DEFAULT_TRACK_NUMBER)), \* TrackUID
                      El(156, NumD(0)),                      \* FlagLacing
                      El(2274716, Str(<<117, 110, 100>>)),   \* Language "und"
                      El(134, Str(<<86, 95, 86, 80, 56>>)),  \* CodecID "V_VP8"
                      El(2459272, Str(<<86, 80, 56>>)),      \* CodecName "VP8"
                      El(131, NumD(1)),                      \* TrackType
                      El(224,                                \* Video
                         Arr(<<El(176, NumD(videoWidth)),    \* PixelWidth
                               El(186, NumD(videoHeight))>>  \* PixelHeight
                             \o IF transparent
                                THEN <<El(21440, NumD(1))>>  \* AlphaMode
                                ELSE <<>>))>>))>>))

\* writeHeader().  Of ebmlSegment only id, size, offset and dataOffset are
\* read again, so its children are not kept with it.
writeHeader(s) ==
    LET ebmlSegment == ElSized(408125543,                    \* 0x18538067 Segment
                               Arr(<<createSeekHead, segmentInfo,
                                     tracks(s.m.videoWidth, s.m.videoHeight,
                                            s.m.options.transparent)>>),
                               EBML_SIZE_UNKNOWN_5_BYTES)
        Positions(s2, written) ==
            IF s2.err # "" THEN s2
            ELSE [s2 EXCEPT
                     !.m.seekHead =
                         setSeekPosition(
                             setSeekPosition(@, 2,
                                 fileOffsetToSegmentRelative(s2, written.data.items[2].offset)),
                             3, fileOffsetToSegmentRelative(s2, written.data.items[3].offset)),
                     !.m.writtenHeader = TRUE]
        Written(r, written) ==
            Positions(sinkWrite([s EXCEPT !.m.ebmlSegment = [written EXCEPT !.data = Arr(<<>>)],
                                          !.m.seekHead = written.data.items[1],
                                          !.m.segmentDuration = written.data.items[2].data.items[4]],
                                getAsDataArray(r.buf)),
                      written)
        Serialized(r) == Written(r, r.e.items[2])
    IN  Serialized(writeEBML(ArrayBufferDataStream(256), s.bb.pos,
                             Arr(<<ebmlHeader, ebmlSegment>>)))

\* The 4 bytes before the frame data: track number, timecode, flags.
blockHeader(keyframe, flags) ==
    getAsDataArray(
        writeByte(
            writeU16BE(
                writeEBMLVarInt(ArrayBufferDataStream(1 + 2 + 1), keyframe.trackNumber),
                keyframe.timecode),
            flags))

createBlockGroupForTransparentKeyframe(keyframe) ==
    El(160,                                                  \* 0xA0 BlockGroup
       Arr(<<El(161,                                         \* 0xA1 Block
                Arr(<<U8(blockHeader(keyframe, 0)), Str(keyframe.frame)>>)),
             El(30113,                                       \* 0x75A1 BlockAdditions
                Arr(<<El(166,                                \* 0xA6 BlockMore
                         Arr(<<El(238, NumD(1)),             \* 0xEE BlockAddID
                               El(165, Str(keyframe.alpha))  \* 0xA5 BlockAdditional
                             >>))>>))>>))

\* createSimpleBlockForKeyframe() without the keyframe flag.
createSimpleBlockForKeyframe_NoFlags(keyframe) ==
    El(163, Arr(<<U8(blockHeader(keyframe, 0)), Str(keyframe.frame)>>))

createSimpleBlockForKeyframe(keyframe) ==
    El(163,                                                  \* 0xA3 SimpleBlock
       Arr(<<U8(blockHeader(keyframe, 128)), Str(keyframe.frame)>>))

\* A frame without alpha has alpha = <<>>: null and '' are both falsy.
createContainerForKeyframe(keyframe) ==
    IF keyframe.alpha # <<>> THEN createBlockGroupForTransparentKeyframe(keyframe)
    ELSE createSimpleBlockForKeyframe(keyframe)

\* createCluster(cluster), cluster.timecode being rounded already.
createCluster(timecode) ==
    El(524531317, Arr(<<El(231, NumD(timecode))>>))          \* 0x1f43b675, 0xe7 Timecode

\* addCuePoint() keeping the file offset of the cluster as it is.
addCuePoint_Absolute(s, trackIndex, clusterTime, clusterFileOffset) ==
    [s EXCEPT !.m.cues = Append(@,
        El(187,
           Arr(<<El(179, NumD(clusterTime)),
                 El(183,
                    Arr(<<El(247, NumD(trackIndex)),
                          El(241, NumD(clusterFileOffset))>>))>>)))]

\* addCuePoint(trackIndex, clusterTime, clusterFileOffset)
addCuePoint(s, trackIndex, clusterTime, clusterFileOffset) ==
    [s EXCEPT !.m.cues = Append(@,
        El(187,                                              \* 0xBB CuePoint
           Arr(<<El(179, NumD(clusterTime)),                 \* 0xB3 CueTime
                 El(183,                                     \* 0xB7 CueTrackPositions
                    Arr(<<El(247, NumD(trackIndex)),         \* 0xF7 CueTrack
                          El(241, NumD(fileOffsetToSegmentRelative(s, clusterFileOffset)))
                        >>))>>)))]

\* writeCues().  The write stores sizes and offsets in the cue points too.
writeCues(s) ==
    LET Position(s1, r) ==
            IF s1.err # "" THEN s1
            ELSE [s1 EXCEPT !.m.seekHead =
                     setSeekPosition(@, 1, fileOffsetToSegmentRelative(s1, r.e.offset))]
        Serialized(r) ==
            Position(sinkWrite([s EXCEPT !.m.cues = r.e.data.items], getAsDataArray(r.buf)), r)
    IN  Serialized(writeEBML(ArrayBufferDataStream(16 + Len(s.m.cues) * 32), s.bb.pos,
                             El(475249515, Arr(s.m.cues))))  \* 0x1C53BB6B Cues

\* rawImageSize of flushClusterFrameBuffer.
RECURSIVE rawImageSize(_)
rawImageSize(frames) ==
    IF frames = <<>> THEN 0
    ELSE Len(Head(frames).frame) + Len(Head(frames).alpha) + rawImageSize(Tail(frames))

\* flushClusterFrameBuffer() that leaves clusterStartTime as it is.
flushFrames_StartTimeKept(s) ==
    LET frames == s.m.clusterFrameBuffer
        Cue(s1, r) ==
            IF s1.err # "" THEN s1
            ELSE [addCuePoint(s1, DEFAULT_TRACK_NUMBER, Round(s.m.clusterStartTime), r.e.offset)
                     EXCEPT !.m.clusterFrameBuffer = <<>>,
                            !.m.clusterDuration = 0]
        Serialized(r) == Cue(sinkWrite(s, getAsDataArray(r.buf)), r)
        Cluster(cluster) ==
            Serialized(writeEBML(ArrayBufferDataStream(rawImageSize(frames) + Len(frames) * 64),
                                 s.bb.pos,
                                 [cluster EXCEPT !.data.items =
                                      @ \o [i \in 1..Len(frames) |->
                                               createContainerForKeyframe(frames[i])]]))
    IN  Cluster(createCluster(Round(s.m.clusterStartTime)))

\* flushClusterFrameBuffer(), after its test for an empty buffer.
flushFrames(s) ==
    LET frames == s.m.clusterFrameBuffer
        Cue(s1, r) ==
            IF s1.err # "" THEN s1
            ELSE [addCuePoint(s1, DEFAULT_TRACK_NUMBER, Round(s.m.clusterStartTime), r.e.offset)
                     EXCEPT !.m.clusterFrameBuffer = <<>>,
                            !.m.clusterStartTime = @ + s.m.clusterDuration,
                            !.m.clusterDuration = 0]
        Serialized(r) == Cue(sinkWrite(s, getAsDataArray(r.buf)), r)
        Cluster(cluster) ==
            Serialized(writeEBML(ArrayBufferDataStream(rawImageSize(frames) + Len(frames) * 64),
                                 s.bb.pos,
                                 [cluster EXCEPT !.data.items =
                                      @ \o [i \in 1..Len(frames) |->
                                               createContainerForKeyframe(frames[i])]]))
    IN  Cluster(createCluster(Round(s.m.clusterStartTime)))

\* flushClusterFrameBuffer() without the test: an empty buffer is flushed too.
flushClusterFrameBuffer_NoEmptyCheck(s) == flushFrames(s)

flushClusterFrameBuffer(s) ==
    IF Len(s.m.clusterFrameBuffer) = 0 THEN s ELSE flushFrames(s)

\* validateOptions() deriving the frameDuration from the frameRate whenever
\* there is one, a frameDuration given or not.
validateOptions_FrameRateFirst(options) ==
    IF options.frameRate # 0
    THEN [err |-> "",
          options |-> [options EXCEPT !.frameDuration = Ms(1000) \div options.frameRate]]
    ELSE IF options.frameDuration = 0
    THEN [err |-> "Missing required frameDuration or frameRate setting", options |-> options]
    ELSE [err |-> "", options |-> options]

\* validateOptions(): the frameDuration derived, 0 standing for null; what it
\* does to quality and alphaQuality is left to the host's encoder.
validateOptions(options) ==
    IF options.frameDuration = 0
    THEN IF options.frameRate # 0
         THEN [err |-> "",
               options |-> [options EXCEPT !.frameDuration = Ms(1000) \div options.frameRate]]
         ELSE [err |-> "Missing required frameDuration or frameRate setting",
               options |-> options]
    ELSE [err |-> "", options |-> options]

\* addFrameToCluster(frame) taking the timecode after the frame's duration
\* is added.
addFrameToCluster_TimecodeAfter(s, frame) ==
    LET Buffered(s1) ==
            IF s1.m.clusterDuration >= Ms(MAX_CLUSTER_DURATION_MSEC)
            THEN flushClusterFrameBuffer(s1)
            ELSE s1
    IN  Buffered([s EXCEPT !.m.clusterFrameBuffer =
                               Append(@, [frame EXCEPT !.trackNumber = DEFAULT_TRACK_NUMBER,
                                                       !.timecode = Round(s.m.clusterDuration
                                                                          + frame.duration)]),
                           !.m.clusterDuration = @ + frame.duration])

\* addFrameToCluster(frame) flushing only above the maximum, not at it.
addFrameToCluster_FlushAbove(s, frame) ==
    LET Buffered(s1) ==
            IF s1.m.clusterDuration > Ms(MAX_CLUSTER_DURATION_MSEC)
            THEN flushClusterFrameBuffer(s1)
            ELSE s1
    IN  Buffered([s EXCEPT !.m.clusterFrameBuffer =
                               Append(@, [frame EXCEPT !.trackNumber = DEFAULT_TRACK_NUMBER,
                                                       !.timecode = Round(s.m.clusterDuration)]),
                           !.m.clusterDuration = @ + frame.duration])

\* addFrameToCluster(frame)
addFrameToCluster(s, frame) ==
    LET Buffered(s1) ==
            IF s1.m.clusterDuration >= Ms(MAX_CLUSTER_DURATION_MSEC)
            THEN flushClusterFrameBuffer(s1)
            ELSE s1
    IN  Buffered([s EXCEPT !.m.clusterFrameBuffer =
                               Append(@, [frame EXCEPT !.trackNumber = DEFAULT_TRACK_NUMBER,
                                                       !.timecode = Round(s.m.clusterDuration)]),
                           !.m.clusterDuration = @ + frame.duration])

\* The rewrite functions without their blobBuffer.seek(offset): the bytes
\* are written where the position is, at the end of the file.
patch_NoSeek(s, offset, dataArray) == sinkWrite(s, dataArray)

\* The rewrite functions without their blobBuffer.seek(oldPos): the
\* position stays behind the bytes written.
patch_NoRestore(s, offset, dataArray) ==
    LET Sought(s1) == Then(s1, sinkWrite(s1, dataArray))
    IN  Sought(sinkSeek(s, offset))

\* The bytes `dataArray` written over the file at `offset`, the position put
\* back: the seek, write, seek of the three rewrite functions.
patch(s, offset, dataArray) ==
    LET Written(s2) == Then(s2, sinkSeek(s2, s.bb.pos))
        Sought(s1) == Then(s1, Written(sinkWrite(s1, dataArray)))
    IN  Sought(sinkSeek(s, offset))

\* rewriteSeekHead(): the children serialized again, over the old ones.
rewriteSeekHead(s) ==
    LET Serialized(r) ==
            patch([s EXCEPT !.m.seekHead.data = r.e], s.m.seekHead.dataOffset,
                  getAsDataArray(r.buf))
    IN  Serialized(writeEBML(ArrayBufferDataStream(s.m.seekHead.size),
                             s.m.seekHead.dataOffset, s.m.seekHead.data))

\* rewriteDuration() writing the duration of the cluster being built.
rewriteDuration_ClusterDuration(s) ==
    patch(s, s.m.segmentDuration.dataOffset,
          getAsDataArray(writeDoubleBE(ArrayBufferDataStream(8), s.m.clusterDuration)))

rewriteDuration(s) ==
    patch(s, s.m.segmentDuration.dataOffset,
          getAsDataArray(writeDoubleBE(ArrayBufferDataStream(8), s.m.clusterStartTime)))

\* rewriteSegmentLength() measuring the segment from its id byte, not from
\* the first byte of its data.
rewriteSegmentLength_FromOffset(s) ==
    patch(s, s.m.ebmlSegment.offset,
          getAsDataArray(
              writeEBMLVarIntWidth(
                  writeUnsignedIntBE(ArrayBufferDataStream(10), s.m.ebmlSegment.id, 0),
                  s.bb.pos - s.m.ebmlSegment.offset, 5)))

\* rewriteSegmentLength() writing the size in 8 bytes, 12 bytes with the id.
rewriteSegmentLength_Width8(s) ==
    patch(s, s.m.ebmlSegment.offset,
          getAsDataArray(
              writeEBMLVarIntWidth(
                  writeUnsignedIntBE(ArrayBufferDataStream(10), s.m.ebmlSegment.id, 0),
                  s.bb.pos - s.m.ebmlSegment.dataOffset, 8)))

rewriteSegmentLength(s) ==
    patch(s, s.m.ebmlSegment.offset,
          getAsDataArray(
              writeEBMLVarIntWidth(
                  writeUnsignedIntBE(ArrayBufferDataStream(10), s.m.ebmlSegment.id, 0),
                  s.bb.pos - s.m.ebmlSegment.dataOffset, 5)))

\* What the host's encoder returns for the grayscale canvas that
\* convertAlphaToGrayscaleImage draws: a WebP file with one 'VP8 ' chunk.
alphaBufferWebP ==
    <<82, 73, 70, 70, 13, 0, 0, 0, 87, 69, 66, 80, 86, 80, 56, 32, 1, 0, 0, 0, 9>>

\* frameDurationOf() that looks at a numeric alpha before the duration
\* argument.
frameDurationOf_AlphaFirst(s, alpha, overrideFrameDuration) ==
    IF alpha.t = "num" THEN alpha.n
    ELSE IF overrideFrameDuration # 0 THEN overrideFrameDuration
    ELSE s.m.options.frameDuration

\* The duration addFrame gives the frame; 0 stands for an argument left out.
frameDurationOf(s, alpha, overrideFrameDuration) ==
    IF overrideFrameDuration # 0 THEN overrideFrameDuration
    ELSE IF alpha.t = "num" THEN alpha.n
    ELSE s.m.options.frameDuration

\* The image frameAlpha of addFrame as a WebP string, <<>> when null; a
\* string frame has no canvas for convertAlphaToGrayscaleImage to read.
frameAlphaOf(s, frame, alpha, keyframe) ==
    IF ~s.m.options.transparent THEN [err |-> "", webP |-> <<>>]
    ELSE IF alpha.t = "str" THEN [err |-> "", webP |-> alpha.webP]
    ELSE IF keyframe.hasAlpha
    THEN IF frame.canvas THEN [err |-> "", webP |-> alphaBufferWebP]
         ELSE [err |-> "TypeError: source.getContext is not a function", webP |-> <<>>]
    ELSE [err |-> "", webP |-> <<>>]

\* addFrame(frame, alpha, overrideFrameDuration), after the header.
addFrameBody(s, frame, alpha, overrideFrameDuration) ==
    LET Alpha(keyframe, frameAlpha, alphaKeyframe) ==
            IF frameAlpha.webP # <<>> /\ alphaKeyframe.err # ""
            THEN [s EXCEPT !.err = alphaKeyframe.err]
            ELSE addFrameToCluster(s,
                     [frame |-> keyframe.frame,
                      duration |-> frameDurationOf(s, alpha, overrideFrameDuration),
                      alpha |-> IF frameAlpha.webP # <<>> THEN alphaKeyframe.frame ELSE <<>>,
                      trackNumber |-> 0, timecode |-> 0])
        FrameAlpha(keyframe, frameAlpha) ==
            IF frameAlpha.err # "" THEN [s EXCEPT !.err = frameAlpha.err]
            ELSE Alpha(keyframe, frameAlpha, extractKeyframeFromWebP(frameAlpha.webP))
        Keyframe(keyframe) ==
            IF keyframe.err # "" THEN [s EXCEPT !.err = keyframe.err]
            ELSE FrameAlpha(keyframe, frameAlphaOf(s, frame, alpha, keyframe))
    IN  Keyframe(extractKeyframeFromWebP(frame.webP))

\* addFrame() that writes the header whether or not it is written.
addFrame_HeaderEachCall(s, frame, alpha, overrideFrameDuration) ==
    LET Header(s1) == Then(s1, addFrameBody(s1, frame, alpha, overrideFrameDuration))
    IN  Header(writeHeader([s EXCEPT !.m.videoWidth = frame.width,
                                     !.m.videoHeight = frame.height]))

addFrame(s, frame, alpha, overrideFrameDuration) ==
    LET Header(s1) == Then(s1, addFrameBody(s1, frame, alpha, overrideFrameDuration))
    IN  Header(IF ~s.m.writtenHeader
               THEN writeHeader([s EXCEPT !.m.videoWidth = frame.width,
                                          !.m.videoHeight = frame.height])
               ELSE s)

\* this.complete(), up to the call of blobBuffer.complete.
completeWrites(s) ==
    LET Duration(s5) == Then(s5, rewriteSegmentLength(s5))
        SeekHead(s4) == Then(s4, Duration(rewriteDuration(s4)))
        Cues(s3) == Then(s3, SeekHead(rewriteSeekHead(s3)))
        Flushed(s2) == Then(s2, Cues(writeCues(s2)))
        Header(s1) == Then(s1, Flushed(flushClusterFrameBuffer(s1)))
    IN  Header(IF ~s.m.writtenHeader THEN writeHeader(s) ELSE s)

muxComplete(s) ==
    LET Written(s1) == Then(s1, [s1 EXCEPT !.bb = complete(s1.bb)])
    IN  Written(completeWrites(s))

----------------------------------------------------------------------------
(* The muxer driven by a caller: new WebMWriter(options), addFrame and     *)
(* complete, with the write chain running in between.                      *)

\* The number of addFrame and complete calls.
MaxCalls == 3

\* The closure's variables as the function body leaves them.
closure(options) ==
    [options |-> options, writtenHeader |-> FALSE, videoWidth |-> 0, videoHeight |-> 0,
     clusterFrameBuffer |-> <<>>, clusterStartTime |-> 0, clusterDuration |-> 0,
     seekHead |-> El(0, Arr(<<>>)), ebmlSegment |-> El(0, Arr(<<>>)),
     segmentDuration |-> segmentDuration0, cues |-> <<>>]

\* An options object: 0 stands for null, dest for fileWriter or fd.
Options(given, frameDuration, frameRate, transparent, dest) ==
    [given |-> given, frameDuration |-> frameDuration, frameRate |-> frameRate,
     transparent |-> transparent, dest |-> dest]

\* No argument at all; {}; a frame duration; a frame rate with transparency
\* and an fd; both timings with a FileWriter.
MuxOptions ==
    {Options(FALSE, 0, 0, FALSE, "none"),
     Options(TRUE, 0, 0, FALSE, "none"),
     Options(TRUE, Ms(2500), 0, FALSE, "none"),
     Options(TRUE, 0, 16, TRUE, "fd"),
     Options(TRUE, Ms(2500), 16, FALSE, "fileWriter")}

\* WebP files: one 'VP8 ' chunk; 'VP8X', 'ALPH' (odd length) and 'VP8 ';
\* a lossless file, which has no 'VP8 ' chunk.
plainWebP ==
    <<82, 73, 70, 70, 14, 0, 0, 0, 87, 69, 66, 80, 86, 80, 56, 32, 2, 0, 0, 0, 1, 2>>
alphaWebP ==
    <<82, 73, 70, 70, 34, 0, 0, 0, 87, 69, 66, 80, 86, 80, 56, 88, 2, 0, 0, 0, 0, 0,
      65, 76, 80, 72, 1, 0, 0, 0, 7, 0, 86, 80, 56, 32, 2, 0, 0, 0, 3, 4>>
losslessWebP ==
    <<82, 73, 70, 70, 14, 0, 0, 0, 87, 69, 66, 80, 86, 80, 56, 76, 2, 0, 0, 0, 5, 6>>

Image(canvas, width, height, webP) ==
    [canvas |-> canvas, width |-> width, height |-> height, webP |-> webP]

NoAlpha == [t |-> "none", n |-> 0, webP |-> <<>>]

\* The arguments of addFrame: a string with the default duration; a canvas
\* with an alpha chunk and a duration that fills a cluster; a string with a
\* numeric alpha of 62.5 ms; a lossless image; a string with an alpha string;
\* a canvas with an alpha chunk and a numeric alpha; a numeric alpha and a
\* duration as well.
FrameInputs ==
    {[frame |-> Image(FALSE, 0, 0, plainWebP), alpha |-> NoAlpha, overrideFrameDuration |-> 0],
     [frame |-> Image(TRUE, 320, 240, alphaWebP), alpha |-> NoAlpha,
      overrideFrameDuration |-> Ms(5000)],
     [frame |-> Image(FALSE, 0, 0, plainWebP), alpha |-> [t |-> "num", n |-> Ms(125) \div 2, webP |-> <<>>],
      overrideFrameDuration |-> 0],
     [frame |-> Image(TRUE, 320, 240, losslessWebP), alpha |-> NoAlpha,
      overrideFrameDuration |-> 0],
     [frame |-> Image(FALSE, 0, 0, plainWebP),
      alpha |-> [t |-> "str", n |-> 0, webP |-> alphaBufferWebP],
      overrideFrameDuration |-> 0],
     [frame |-> Image(TRUE, 320, 240, alphaWebP),
      alpha |-> [t |-> "num", n |-> Ms(125) \div 2, webP |-> <<>>],
      overrideFrameDuration |-> 0],
     [frame |-> Image(FALSE, 0, 0, plainWebP),
      alpha |-> [t |-> "num", n |-> Ms(125) \div 2, webP |-> <<>>],
      overrideFrameDuration |-> Ms(1250)],
     [frame |-> Image(FALSE, 0, 0, plainWebP), alpha |-> NoAlpha,
      overrideFrameDuration |-> Ms(9999) \div 2]}

InitMux ==
    /\ mode = "mem"
    /\ buffer = <<>>
    /\ pos = 0
    /\ length = 0
    /\ chain = <<>>
    /\ heap = HeapInit
    /\ file = <<>>
    /\ call = [op |-> "new", arg |-> Num(0), threw |-> FALSE]
    /\ mux = [phase |-> "new", m |-> closure(Options(FALSE, 0, 0, FALSE, "none")),
              calls |-> <<>>]

\* new WebMWriter(options): the BlobBuffer is made of options.fileWriter ||
\* options.fd, which throws when there is no options object; an fd comes
\* without fs and leaves the BlobBuffer in memory.  Then validateOptions.
NewWebMWriter(options) ==
    /\ mux.phase = "new"
    /\ LET v == validateOptions(options)
           err == IF ~options.given
                  THEN "TypeError: Cannot read properties of undefined"
                  ELSE v.err
       IN  /\ mux' = [mux EXCEPT !.phase = IF err = "" THEN "ready" ELSE "failed",
                                 !.m = closure(v.options)]
           /\ call' = [op |-> "WebMWriter", arg |-> options, threw |-> err # "", err |-> err]
    /\ mode' = IF options.given /\ options.dest = "fileWriter" THEN "fileWriter" ELSE "mem"
    /\ UNCHANGED <<buffer, pos, length, chain, heap, file>>

\* A public call of the muxer: the closure and the BlobBuffer as the call
\* leaves them, thrown or not, and the call noted.
MuxCall(op, s1, duration) ==
    /\ mux' = [mux EXCEPT !.m = s1.m,
                          !.calls = Append(@, [op |-> op, threw |-> s1.err # "",
                                               duration |-> duration])]
    /\ pos' = s1.bb.pos
    /\ length' = s1.bb.length
    /\ chain' = s1.bb.writePromise
    /\ call' = [op |-> op, arg |-> Num(0), threw |-> s1.err # "", err |-> s1.err]
    /\ UNCHANGED <<mode, buffer, heap, file>>

AddFrame(frame, alpha, overrideFrameDuration) ==
    /\ mux.phase = "ready"
    /\ Len(mux.calls) < MaxCalls
    /\ LET s == [m |-> mux.m, bb |-> BB, err |-> ""]
       IN  MuxCall("addFrame", addFrame(s, frame, alpha, overrideFrameDuration),
                   frameDurationOf(s, alpha, overrideFrameDuration))

MuxComplete ==
    /\ mux.phase = "ready"
    /\ Len(mux.calls) < MaxCalls
    /\ MuxCall("complete", muxComplete([m |-> mux.m, bb |-> BB, err |-> ""]), 0)

NextMux ==
    \/ \E options \in MuxOptions : NewWebMWriter(options)
    \/ \E f \in FrameInputs : AddFrame(f.frame, f.alpha, f.overrideFrameDuration)
    \/ MuxComplete
    \/ \E i \in 1..Len(chain) : RunTask(i)
    \/ \E i \in 1..Len(chain) : ReadOldDone(i)
    \/ \E i \in 1..Len(chain) : ReadNewDone(i)
    \/ \E i \in 1..Len(chain) : FileWriterWriteEnd(i)

SpecMux == InitMux /\ [][NextMux]_vars

----------------------------------------------------------------------------
(* Reference semantics used by the properties of the sink *)

IsWrite(t) == t.typ = "write"
IsComplete(t) == t.typ = "complete"
Settled(t) == t.st \in {"done", "failed", "skipped"}

\* The whole memory-backend callback of one write, start to end, on
\* s = [buffer, heap, err]: what the chain does when nothing else runs
\* in between.
memApply(s, t) ==
    IF s.err # "" THEN s
    ELSE
    LET k == IF t.isAppend THEN 0 ELSE FirstOverlap(s.buffer, t)
    IN  IF k = 0
        THEN [s EXCEPT !.buffer = Append(@, Entry(t.offset, t.data, t.length))]
        ELSE IF Crosses(t, s.buffer[k])
        THEN [s EXCEPT !.err = "Overwrite crosses blob boundaries"]
        ELSE IF t.offset = s.buffer[k].offset /\ t.length = s.buffer[k].length
        THEN [s EXCEPT !.buffer[k].data = t.data]
        ELSE LET dst == convertToUint8Array(s.buffer[k].data, s.heap)
                 src == Bytes(convertToUint8Array(t.data, s.heap), s.heap)
                 rel == t.offset - s.buffer[k].offset
             IN  IF rel + Len(src) > dst.len
                 THEN [s EXCEPT !.buffer[k].data = dst,
                                !.err = "RangeError: offset is out of bounds"]
                 ELSE IF dst.k = "Own"
                 THEN [s EXCEPT !.buffer[k].data = OwnOf(Overlay(dst.b, rel, src))]
                 ELSE [s EXCEPT !.buffer[k].data = dst,
                                !.heap = Overlay(s.heap, dst.off + rel, src)]

\* The sink after exactly the writes among `tasks`, applied one at a time.
RECURSIVE Replay(_, _)
Replay(s, tasks) ==
    IF tasks = <<>> THEN s
    ELSE Replay(IF IsWrite(Head(tasks)) THEN memApply(s, Head(tasks)) ELSE s, Tail(tasks))

EmptySink == [buffer |-> <<>>, heap |-> HeapInit, err |-> ""]

\* The reference file: each write's bytes (as they were at the call) laid at
\* the cursor position of the call, in issue order.
RECURSIVE RefFile(_, _)
RefFile(f, tasks) ==
    IF tasks = <<>> THEN f
    ELSE RefFile(IF IsWrite(Head(tasks))
                 THEN Overlay(f, Head(tasks).offset, Head(tasks).bytes0)
                 ELSE f, Tail(tasks))

RECURSIVE SumBytes(_)
SumBytes(tasks) ==
    IF tasks = <<>> THEN 0
    ELSE (IF IsWrite(Head(tasks)) THEN Len(Head(tasks).bytes0) ELSE 0) + SumBytes(Tail(tasks))

\* The offsets and lengths of a chunk list.
Layout(buf) == [i \in 1..Len(buf) |-> <<buf[i].offset, buf[i].length>>]

IsDoneWrite(t) == IsWrite(t) /\ t.st = "done"

----------------------------------------------------------------------------
(* C1: sink writes take effect in issue order.  A callback leaves "queued"  *)
(* only when everything chained before it has settled, so no write starts   *)
(* while an earlier one is reading a chunk back or writing to the file, and *)
(* in memory the chunk list is what the finished writes, applied one at a   *)
(* time in issue order, leave.                                              *)
C1_WritesApplyInIssueOrder ==
    /\ \A i, j \in 1..Len(chain) :
           (i < j /\ chain[j].st # "queued") => Settled(chain[i])
    /\ mode = "mem" =>
           LET s == Replay(EmptySink, SelectSeq(chain, IsDoneWrite))
           IN  /\ Layout(buffer) = Layout(s.buffer)
               /\ (\A i \in 1..Len(chain) : chain[i].st \notin {"readOld", "readNew"})
                      => BlobBytes(buffer, heap) = BlobBytes(s.buffer, s.heap)

\* A write is halfway through the asynchronous overwrite while a later
\* write waits behind it.
C1_Witness ==
    \E i, j \in 1..Len(chain) :
        /\ i < j
        /\ chain[i].st = "readNew"
        /\ IsWrite(chain[j])
        /\ chain[j].st = "queued"

\* The same with a partial fs.write outstanding (checked as a second case).
C1_WitnessFs ==
    \E i, j \in 1..Len(chain) :
        /\ i < j
        /\ chain[i].st = "fsWrite" /\ chain[i].tw > 0
        /\ IsWrite(chain[j])
        /\ chain[j].st = "queued"

(* C2: the promise of complete() resolves only after every write issued     *)
(* before it is applied; in memory it resolves with the bytes of the sink   *)
(* after exactly those writes (overwrites included, later writes not), on   *)
(* every call; with a file destination it resolves with null.               *)
C2_CompleteAfterEarlierWrites ==
    \A k \in 1..Len(chain) :
        (IsComplete(chain[k]) /\ chain[k].st = "done") =>
            /\ \A i \in 1..(k - 1) : chain[i].st = "done"
            /\ IF mode = "mem"
               THEN /\ chain[k].res = "blob"
                    /\ LET s == Replay(EmptySink, SubSeq(chain, 1, k - 1))
                       IN  chain[k].blob = BlobBytes(s.buffer, s.heap)
               ELSE chain[k].res = "null"

\* complete() was called twice with a write in between, and the two blobs differ.
C2_Witness ==
    \E k1, k2 \in 1..Len(chain) :
        /\ k1 < k2
        /\ IsComplete(chain[k1]) /\ chain[k1].st = "done" /\ chain[k1].res = "blob"
        /\ IsComplete(chain[k2]) /\ chain[k2].st = "done"
        /\ chain[k1].blob # chain[k2].blob

(* C3: in memory mode, when no write fails, the bytes complete() yields are *)
(* the reference file: every write laid at its cursor position in issue     *)
(* order.                                                                   *)
C3_BlobIsReferenceFile ==
    \A k \in 1..Len(chain) :
        (mode = "mem" /\ IsComplete(chain[k]) /\ chain[k].st = "done") =>
            chain[k].blob = RefFile(<<>>, SubSeq(chain, 1, k - 1))

\* Some chunk holds the whole of [offset, offset + length).
WithinOneChunk(t) ==
    \E e \in 1..Len(buffer) :
        /\ buffer[e].offset <= t.offset
        /\ t.offset + t.length <= buffer[e].offset + buffer[e].length

(* C4: in memory mode an overwrite (cursor below the length) of l bytes at  *)
(* o succeeds iff o + l <= length and [o, o + l) lies within one chunk, and *)
(* fails with 'Overwrite crosses blob boundaries' otherwise (of the         *)
(* overwrites whose callback ran, that is, with no failure before them).    *)
C4_OverwriteSucceedsIffContained ==
    \A i \in 1..Len(chain) :
        LET t == chain[i]
        IN  (mode = "mem" /\ IsWrite(t) /\ t.offset < t.len0 /\ t.st \in {"done", "failed"}) =>
                /\ (t.st = "done") <=> (t.offset + t.length <= t.len0 /\ WithinOneChunk(t))
                /\ (t.st # "done") => t.err = "Overwrite crosses blob boundaries"

\* seek's rule: a number in [0, length].
SeekAllowed(offset, len) == ~offset.nan /\ 0 <= offset.v /\ offset.v <= len

(* C5: seek(offset) sets pos to offset iff 0 <= offset <= length and offset *)
(* is not NaN; otherwise it throws and leaves pos and length as they were.  *)
(* So pos <= length in every state.                                         *)
C5_SeekRule ==
    /\ [](pos <= length)
    /\ [](call.op = "seek" =>
            /\ call.threw <=> ~SeekAllowed(call.arg, length)
            /\ ~call.threw => pos = call.arg.v)
    /\ [][call'.op = "seek" => (length' = length /\ (call'.threw => pos' = pos))]_vars

\* A seek past the end of a non-empty sink has thrown.
C5_Witness ==
    /\ call.op = "seek" /\ call.threw
    /\ ~call.arg.nan /\ call.arg.v > length
    /\ length > 0
    /\ pos < length

\* Every write so far was an append.
AllAppends == \A i \in 1..Len(chain) : IsWrite(chain[i]) => chain[i].isAppend

(* C6: from an empty sink, after pure append writes, pos and length both    *)
(* equal the sum of the sizes of the written items as soon as write()       *)
(* returns.                                                                 *)
C6_AppendAdvancesBySize ==
    (call.op = "write" /\ ~call.threw /\ AllAppends) =>
        /\ pos = SumBytes(chain)
        /\ length = SumBytes(chain)

----------------------------------------------------------------------------
(* Reference semantics used by the properties of the muxer *)

\* The calls of the muxer that returned, by operation.
IsFrameCall(c) == c.op = "addFrame" /\ ~c.threw
IsCompleteCall(c) == c.op = "complete" /\ ~c.threw

\* The index in mux.calls of the j-th complete() that returned, 0 when there
\* is none.
NthCompleteCall(j) ==
    LET hits == {i \in 1..Len(mux.calls) :
                    /\ IsCompleteCall(mux.calls[i])
                    /\ Cardinality({h \in 1..i : IsCompleteCall(mux.calls[h])}) = j}
    IN  IF hits = {} THEN 0 ELSE CHOOSE i \in hits : TRUE

\* The durations of the frames that the first n calls added, summed.
RECURSIVE DurationBefore(_)
DurationBefore(n) ==
    IF n = 0 THEN 0
    ELSE (IF IsFrameCall(mux.calls[n]) THEN mux.calls[n].duration ELSE 0)
         + DurationBefore(n - 1)

\* Some call before the n-th was complete().
CompletedBefore(n) == \E i \in 1..(n - 1) : mux.calls[i].op = "complete"

\* The bytes [offset, offset + n) of a byte string.
BytesAt(bs, offset, n) == SubSeq(bs, offset + 1, offset + n)

(* C7: a muxer with valid timing whose first call is complete() does not    *)
(* fail: the call returns, and it has chained the header at offset 0, then  *)
(* (no cluster in between) a Cues element without CuePoint, then the three  *)
(* back-patches over the header (SeekHead, Duration, Segment size), then    *)
(* the sink's complete; none of these is rejected, and the promise resolves *)
(* with a blob of the header and the Cues, at least 12 bytes (with a        *)
(* FileWriter: with null, the bytes being in the file).                     *)
C7_EmptyCompleteSucceeds ==
    (mux.calls # <<>> /\ mux.calls[1].op = "complete") =>
        /\ ~mux.calls[1].threw
        /\ Len(chain) >= 6
        /\ \A i \in 1..6 : chain[i].st \notin {"failed", "skipped"}
        /\ \A i \in 1..5 : IsWrite(chain[i])
        /\ chain[1].offset = 0 /\ chain[1].isAppend
        /\ BytesAt(chain[1].bytes0, 0, 4) = <<26, 69, 223, 163>>
        /\ chain[2].offset = chain[1].length /\ chain[2].isAppend
        /\ chain[2].bytes0 = <<28, 83, 187, 107, 16, 0, 0, 0>>
        /\ \A i \in 3..5 : ~chain[i].isAppend /\ chain[i].offset + chain[i].length <= chain[1].length
        /\ chain[3].offset = mux.m.seekHead.dataOffset
        /\ chain[4].offset = mux.m.segmentDuration.dataOffset /\ chain[4].length = 8
        /\ chain[5].offset = mux.m.ebmlSegment.offset
        /\ BytesAt(chain[5].bytes0, 0, 4) = <<24, 83, 128, 103>>
        /\ IsComplete(chain[6])
        /\ chain[6].st = "done" =>
               IF mode = "mem"
               THEN /\ chain[6].res = "blob"
                    /\ Len(chain[6].blob) = chain[1].length + chain[2].length
                    /\ Len(chain[6].blob) >= 12
               ELSE /\ chain[6].res = "null"
                    /\ Len(file) >= 12

\* complete() was the only call, and its promise has resolved with a blob.
C7_Witness ==
    /\ Len(mux.calls) = 1 /\ mux.calls[1].op = "complete"
    /\ mode = "mem"
    /\ Len(chain) = 6 /\ chain[6].st = "done"
    /\ Len(chain[6].blob) >= 12

(* C8: once complete() has been called, every further public call fails    *)
(* and chains nothing more on the sink.                                     *)
C8_CompletedRejectsCalls ==
    [][(Len(mux'.calls) > Len(mux.calls) /\ CompletedBefore(Len(mux'.calls)))
           => (call'.threw /\ chain' = chain)]_vars

\* The original reading of C9: with an options object, construction succeeds
\* iff exactly one of frameDuration and frameRate is set.
C9_ExactlyOneTiming ==
    (call.op = "WebMWriter" /\ call.arg.given) =>
        /\ ~call.threw <=> ((call.arg.frameDuration # 0) # (call.arg.frameRate # 0))
        /\ call.threw => call.err = "Missing required frameDuration or frameRate setting"

(* C9: with an options object, constructing a muxer succeeds iff at least   *)
(* one of frameDuration and frameRate is set, frameDuration being used when *)
(* both are and 1000 / frameRate otherwise; with neither it fails with      *)
(* 'Missing required frameDuration or frameRate setting'.  Without an       *)
(* options object it fails with a TypeError.                                *)
C9_AtLeastOneTiming ==
    call.op = "WebMWriter" =>
        IF ~call.arg.given
        THEN call.threw /\ call.err = "TypeError: Cannot read properties of undefined"
        ELSE /\ ~call.threw <=> (call.arg.frameDuration # 0 \/ call.arg.frameRate # 0)
             /\ call.threw => call.err = "Missing required frameDuration or frameRate setting"
             /\ ~call.threw =>
                    mux.m.options.frameDuration =
                        IF call.arg.frameDuration # 0 THEN call.arg.frameDuration
                        ELSE Ms(1000) \div call.arg.frameRate

\* A muxer was constructed with both settings.
C9_Witness ==
    /\ call.op = "WebMWriter" /\ ~call.threw
    /\ call.arg.frameDuration # 0 /\ call.arg.frameRate # 0
    /\ mux.phase = "ready"

\* The call of the muxer that chained the j-th complete of the sink.
CompleteCallOf(k) ==
    NthCompleteCall(Cardinality({i \in 1..k : IsComplete(chain[i])}))

(* C10: when the promise of complete() has resolved, the 8 bytes at         *)
(* segmentDuration.dataOffset of the output (the blob; with a FileWriter    *)
(* the file, until a later write lands) are the big-endian double of the    *)
(* sum of the durations of all frames added before that complete(), those   *)
(* of the last, partial cluster included.                                   *)
C10_DurationIsSumOfFrames ==
    \A k \in 1..Len(chain) :
        (IsComplete(chain[k]) /\ chain[k].st = "done") =>
            LET expected == DoubleBE(DurationBefore(CompleteCallOf(k)))
                dataOffset == mux.m.segmentDuration.dataOffset
            IN  /\ CompleteCallOf(k) > 0
                /\ IF mode = "mem"
                   THEN BytesAt(chain[k].blob, dataOffset, 8) = expected
                   ELSE (\A i \in (k + 1)..Len(chain) : chain[i].st \in {"queued", "fw"})
                            => BytesAt(file, dataOffset, 8) = expected

\* Two frames of different durations, the first filling a cluster and the
\* second left in the last cluster, and then a complete() that has resolved.
C10_Witness ==
    /\ Len(mux.calls) = 3
    /\ IsFrameCall(mux.calls[1]) /\ mux.calls[1].duration >= Ms(MAX_CLUSTER_DURATION_MSEC)
    /\ IsFrameCall(mux.calls[2]) /\ mux.calls[2].duration < mux.calls[1].duration
    /\ IsCompleteCall(mux.calls[3])
    /\ Len(mux.m.cues) = 2
    /\ mode = "mem"
    /\ chain[Len(chain)].st = "done" /\ IsComplete(chain[Len(chain)])

\* The output of the complete() whose callback is chain[k]: the blob it
\* resolved with, or the file of a FileWriter.
Output(k) == IF mode = "mem" THEN chain[k].blob ELSE file

\* The output of chain[k] can be read: the promise has resolved and, with a
\* file, nothing chained later has reached it.
OutputReady(k) ==
    /\ IsComplete(chain[k]) /\ chain[k].st = "done"
    /\ mode # "mem" => \A i \in (k + 1)..Len(chain) : chain[i].st \in {"queued", "fw"}

\* A big-endian number read back.
RECURSIVE FromBE(_)
FromBE(bs) ==
    IF bs = <<>> THEN 0 ELSE FromBE(SubSeq(bs, 1, Len(bs) - 1)) * 256 + bs[Len(bs)]

\* An EBML varint of Len(bs) bytes read back: the marker bit taken off.
DecodeVarInt(bs) == FromBE([bs EXCEPT ![1] = @ % (2 ^ (8 - Len(bs)))])

(* C11: in the output of complete() the Segment id is at segment.offset and *)
(* the 5 bytes after it are a varint of final length - segment.dataOffset,  *)
(* the final length being that of the output, Cues included; the rewrite    *)
(* is the callback chained last before the sink's complete and covers the   *)
(* 4 id bytes and the 5 size bytes, which end at segment.dataOffset.        *)
C11_SegmentSizePatched ==
    \A k \in 1..Len(chain) :
        OutputReady(k) =>
            LET segment == mux.m.ebmlSegment
            IN  /\ BytesAt(Output(k), segment.offset, 4) = <<24, 83, 128, 103>>
                /\ BytesAt(Output(k), segment.offset + 4, 5)[1] \div 8 = 1
                /\ DecodeVarInt(BytesAt(Output(k), segment.offset + 4, 5))
                       = Len(Output(k)) - segment.dataOffset
                /\ segment.dataOffset = segment.offset + 4 + 5
                /\ IsWrite(chain[k - 1])
                /\ chain[k - 1].offset = segment.offset
                /\ chain[k - 1].length = 4 + 5
                /\ Len(chain[k - 1].bytes0) = 4 + 5

\* A complete() has resolved in memory with a cluster and its cue point in
\* the segment.
C11_Witness ==
    \E k \in 1..Len(chain) :
        /\ OutputReady(k) /\ mode = "mem"
        /\ Len(mux.m.cues) >= 1
        /\ Len(Output(k)) - mux.m.ebmlSegment.dataOffset > 200

IsAppendWrite(t) == IsWrite(t) /\ t.isAppend

(* C12: in memory mode the three callbacks chained before each sink         *)
(* complete are overwrites that lie within the chunk of the header write    *)
(* (and so does every overwrite of the muxer); none is rejected, no         *)
(* complete is rejected, the chunk a half-done overwrite works on is the    *)
(* header's, and every later chunk (a Cluster or a Cues) holds the bytes    *)
(* its own write gave it.                                                   *)
C12_PatchesWithinHeaderChunk ==
    (mode = "mem" /\ chain # <<>>) =>
        /\ IsAppendWrite(chain[1]) /\ chain[1].offset = 0
        /\ \A i \in 1..Len(chain) :
               /\ chain[i].st \notin {"failed", "skipped"}
               /\ (IsWrite(chain[i]) /\ ~chain[i].isAppend) =>
                      /\ chain[i].offset + chain[i].length <= chain[1].length
                      /\ Len(chain[i].bytes0) = chain[i].length
                      /\ chain[i].st \in {"readOld", "readNew"} => chain[i].idx = 1
               /\ IsComplete(chain[i]) =>
                      \A j \in (i - 3)..(i - 1) : IsWrite(chain[j]) /\ ~chain[j].isAppend
        /\ Len(buffer) <= Len(SelectSeq(chain, IsAppendWrite))
        /\ \A j \in 1..Len(buffer) :
               /\ buffer[j].offset = SelectSeq(chain, IsAppendWrite)[j].offset
               /\ buffer[j].length = SelectSeq(chain, IsAppendWrite)[j].length
               /\ j > 1 => Bytes(buffer[j].data, heap) = SelectSeq(chain, IsAppendWrite)[j].bytes0

\* The three patches of a complete() are done, with a Cluster chunk and a
\* Cues chunk after the header's.
C12_Witness ==
    /\ mode = "mem"
    /\ Len(buffer) >= 3
    /\ \E k \in 4..Len(chain) :
           /\ IsComplete(chain[k]) /\ chain[k].st = "done"
           /\ \A j \in (k - 3)..(k - 1) : ~chain[j].isAppend /\ chain[j].st = "done"

\* The durations of buffered frames, summed.
RECURSIVE SumDurations(_)
SumDurations(frames) ==
    IF frames = <<>> THEN 0 ELSE Head(frames).duration + SumDurations(Tail(frames))

\* Between public calls: the buffered cluster is below the maximum, and
\* clusterDuration is the sum over the buffered frames.
ClusterBelowMax ==
    /\ mux.m.clusterDuration < Ms(MAX_CLUSTER_DURATION_MSEC)
    /\ mux.m.clusterDuration = SumDurations(mux.m.clusterFrameBuffer)

\* A public call that returned; the frame it added, if any, has duration d.
\* When it wrote a cluster (one more cue point) the cluster has at least one
\* frame and its durations sum to less than the maximum plus the last one;
\* an addFrame writes a cluster exactly when the sum reaches the maximum.
ClusterRule ==
    LET c == mux'.calls[Len(mux'.calls)]
        added == IsFrameCall(c)
        d == IF added THEN c.duration ELSE 0
        frames == Len(mux.m.clusterFrameBuffer) + (IF added THEN 1 ELSE 0)
        sum == mux.m.clusterDuration + d
        last == IF added THEN d
                ELSE mux.m.clusterFrameBuffer[Len(mux.m.clusterFrameBuffer)].duration
        flushed == Len(mux'.m.cues) > Len(mux.m.cues)
    IN  /\ Len(mux'.m.cues) \in {Len(mux.m.cues), Len(mux.m.cues) + 1}
        /\ flushed =>
               /\ frames >= 1
               /\ sum < Ms(MAX_CLUSTER_DURATION_MSEC) + last
               /\ mux'.m.clusterFrameBuffer = <<>> /\ mux'.m.clusterDuration = 0
               /\ mux'.m.clusterStartTime = mux.m.clusterStartTime + sum
               /\ \E i \in (Len(chain) + 1)..Len(chain') :
                      BytesAt(chain'[i].bytes0, 0, 4) = <<31, 67, 182, 117>>
        /\ added => (flushed <=> sum >= Ms(MAX_CLUSTER_DURATION_MSEC))
        /\ ~flushed => Len(mux'.m.clusterFrameBuffer) = frames

(* C13: every cluster written (by a flush at the threshold or by            *)
(* complete()) has at least one frame and durations that sum to less than   *)
(* 5000 plus that of its last frame; the flush at the threshold happens in  *)
(* the addFrame call in which the buffered duration reaches 5000, so        *)
(* between public calls the buffered duration is below 5000.                *)
C13_ClusterDurationBound ==
    /\ [](mux.phase = "ready" => ClusterBelowMax)
    /\ [][Len(mux'.calls) > Len(mux.calls) => ClusterRule]_vars

\* Two frames of 2500 ms: the second one filled the cluster, which was
\* written in that call.
C13_Witness ==
    /\ Len(mux.calls) = 2
    /\ IsFrameCall(mux.calls[1]) /\ mux.calls[1].duration = Ms(2500)
    /\ IsFrameCall(mux.calls[2]) /\ mux.calls[2].duration = Ms(2500)
    /\ Len(mux.m.cues) = 1
    /\ mux.m.clusterFrameBuffer = <<>>

\* A write of the sink whose bytes begin with the Cluster id.
IsClusterWrite(t) == IsWrite(t) /\ BytesAt(t.bytes0, 0, 4) = <<31, 67, 182, 117>>

\* The clusters written to the sink, in order.
ClusterWrites == SelectSeq(chain, IsClusterWrite)

\* The Timecode of a serialized cluster: the element after the 4-byte id
\* and the 4-byte size, 0xE7, a 1-byte size and the value.
ClusterTimecode(bs) == FromBE(SubSeq(bs, 11, 10 + (bs[10] - 128)))

\* The fields of a cue point.
CueTime(cue) == cue.data.items[1].data.n
CueTrack(cue) == cue.data.items[2].data.items[1].data.n
CueClusterPosition(cue) == cue.data.items[2].data.items[2].data.n

(* C14: there are as many cue points as clusters written to the sink, and   *)
(* the i-th cue point has CueTrack 1, the Timecode of the i-th cluster as   *)
(* CueTime, and as CueClusterPosition the offset of the i-th cluster's      *)
(* write less segment.dataOffset; a cluster's write is an append, and in    *)
(* the output of a later complete() the Cluster id is at that offset.       *)
C14_CuePointPerCluster ==
    /\ Len(mux.m.cues) = Len(ClusterWrites)
    /\ \A i \in 1..Len(ClusterWrites) :
           /\ ClusterWrites[i].isAppend
           /\ ClusterWrites[i].bytes0[9] = 231
           /\ CueTrack(mux.m.cues[i]) = 1
           /\ CueTime(mux.m.cues[i]) = ClusterTimecode(ClusterWrites[i].bytes0)
           /\ CueClusterPosition(mux.m.cues[i])
                  = ClusterWrites[i].offset - mux.m.ebmlSegment.dataOffset
    /\ \A k \in 1..Len(chain) :
           OutputReady(k) =>
               \A i \in 1..Len(SelectSeq(SubSeq(chain, 1, k), IsClusterWrite)) :
                   BytesAt(Output(k), ClusterWrites[i].offset, 4) = <<31, 67, 182, 117>>

\* Two clusters have their cue points, the second one's bytes not yet in
\* the sink and its time not 0.
C14_Witness ==
    /\ Len(mux.m.cues) = 2
    /\ Len(ClusterWrites) = 2
    /\ ClusterWrites[2].st = "queued"
    /\ CueTime(mux.m.cues[2]) >= 2500
    /\ CueClusterPosition(mux.m.cues[2]) > CueClusterPosition(mux.m.cues[1])

\* The same after complete() has resolved.
C14_WitnessOutput ==
    /\ Len(mux.m.cues) = 2
    /\ \E k \in 1..Len(chain) : OutputReady(k)

\* The offset in bs of the last place where the 4 bytes of id are found:
\* in the header an element comes after the SeekID that names it.
OffsetOfElement(bs, id) ==
    CHOOSE i \in 0..(Len(bs) - 4) :
        /\ BytesAt(bs, i, 4) = id
        /\ \A j \in (i + 1)..(Len(bs) - 4) : BytesAt(bs, j, 4) # id

\* The SeekPosition of the i-th seek point (Cues, SegmentInfo, Tracks).
SeekPosition(i) == mux.m.seekHead.data.items[i].data.items[2].data.n

\* The i-th Seek entry of the SeekHead in an output: 21 bytes, the SeekID's
\* data from byte 9 and the SeekPosition's 5 bytes from byte 16.
SeekIDIn(out, i) == BytesAt(out, mux.m.seekHead.dataOffset + 21 * (i - 1) + 9, 4)
SeekPositionIn(out, i) ==
    FromBE(BytesAt(out, mux.m.seekHead.dataOffset + 21 * (i - 1) + 16, 5))

\* The original reading of C15: the placeholders of SegmentInfo and Tracks
\* hold the dataOffset of those elements (the first byte after the 4-byte id
\* and the 4-byte size), relative to the segment.
C15_SeekPointsHoldDataOffset ==
    mux.m.writtenHeader =>
        \A i \in 2..3 :
            SeekPosition(i) = OffsetOfElement(chain[1].bytes0, seekPointIds[i]) + 4 + 4
                                  - mux.m.ebmlSegment.dataOffset

(* C15: once the header is written, the seek points of SegmentInfo and      *)
(* Tracks hold the offset of the first id byte of those elements less       *)
(* segment.dataOffset (not their dataOffset), and those are the values in   *)
(* the SeekHead of the output of complete(), where they lead to the ids.    *)
C15_SeekPointsHoldOffset ==
    mux.m.writtenHeader =>
        /\ \A i \in 2..3 :
               SeekPosition(i) = OffsetOfElement(chain[1].bytes0, seekPointIds[i])
                                     - mux.m.ebmlSegment.dataOffset
        /\ \A k \in 1..Len(chain) :
               OutputReady(k) =>
                   \A i \in 2..3 :
                       /\ SeekIDIn(Output(k), i) = seekPointIds[i]
                       /\ SeekPositionIn(Output(k), i) = SeekPosition(i)
                       /\ BytesAt(Output(k), mux.m.ebmlSegment.dataOffset + SeekPosition(i), 4)
                              = seekPointIds[i]

\* The header is written and a complete() has resolved with the SeekHead
\* rewritten.
C15_Witness ==
    /\ mux.m.writtenHeader
    /\ SeekPosition(2) > 0 /\ SeekPosition(3) > SeekPosition(2)
    /\ \E k \in 1..Len(chain) : OutputReady(k) /\ SeekPositionIn(Output(k), 3) > 0

\* A write of the sink whose bytes begin with the Cues id.
IsCuesWrite(t) == IsWrite(t) /\ BytesAt(t.bytes0, 0, 4) = <<28, 83, 187, 107>>

\* A write of the sink that rewrites the SeekHead.
IsSeekHeadPatch(t) ==
    IsWrite(t) /\ ~t.isAppend /\ BytesAt(t.bytes0, 0, 4) = <<17, 77, 155, 116>>

\* The offset that the SeekHead of an output names for Cues.
CuesOffsetIn(out) == mux.m.ebmlSegment.dataOffset + SeekPositionIn(out, 1)

\* In the output of the k-th task, a complete(): the SeekHead's entry for
\* Cues leads to a Cues id, and that element ends at the output's end, after
\* every cluster written before.
NamedCuesIsLast(k) ==
    /\ SeekIDIn(Output(k), 1) = seekPointIds[1]
    /\ BytesAt(Output(k), CuesOffsetIn(Output(k)), 4) = seekPointIds[1]
    /\ CuesOffsetIn(Output(k)) + 4 + 4
           + DecodeVarInt(BytesAt(Output(k), CuesOffsetIn(Output(k)) + 4, 4)) = Len(Output(k))
    /\ \A i \in 1..k : IsClusterWrite(chain[i]) => chain[i].offset < CuesOffsetIn(Output(k))

\* Every rewrite of the SeekHead comes after the write of the Cues element
\* whose offset it carries.
SeekHeadRewrittenAfterCues ==
    \A i \in 1..Len(chain) :
        IsSeekHeadPatch(chain[i]) =>
            \E j \in 1..(i - 1) :
                /\ IsCuesWrite(chain[j])
                /\ FromBE(BytesAt(chain[i].bytes0, 16, 5))
                       = chain[j].offset - mux.m.ebmlSegment.dataOffset

\* Among the first k tasks no cluster is written after a Cues element.
NoClusterAfterCues(k) ==
    \A i, j \in 1..k : IsCuesWrite(chain[i]) /\ IsClusterWrite(chain[j]) => j < i

(* C16: in the output of a complete() the Cues element comes after every    *)
(* cluster and is the last element, ending at the output's end; the         *)
(* SeekHead's entry for Cues holds the offset of the Cues id less           *)
(* segment.dataOffset, and the SeekHead is rewritten after the Cues write.  *)
C16_CuesLastAndNamed ==
    /\ SeekHeadRewrittenAfterCues
    /\ \A k \in 1..Len(chain) :
           OutputReady(k) => NamedCuesIsLast(k) /\ NoClusterAfterCues(k)

(* C17: a muxer made with the fd option has its sink in file mode: no       *)
(* chunk is kept in memory (every write goes to the descriptor) and         *)
(* complete() resolves to null.                                             *)
C17_FdIsFileMode ==
    (mux.phase = "ready" /\ mux.m.options.dest = "fd") =>
        /\ mode = "fd"
        /\ buffer = <<>>
        /\ \A k \in 1..Len(chain) :
               (IsComplete(chain[k]) /\ chain[k].st = "done") => chain[k].res = "null"

\* The time of all frames added so far: the clusters flushed and the frames
\* buffered.
TotalTime == mux.m.clusterStartTime + mux.m.clusterDuration

\* The duration the frame of an addFrame call is to have: the duration
\* argument when given, else a numeric alpha, else the configured one.
ExpectedDuration(f) ==
    IF f.overrideFrameDuration # 0 THEN f.overrideFrameDuration
    ELSE IF f.alpha.t = "num" THEN f.alpha.n
    ELSE mux.m.options.frameDuration

\* The configured frame duration is options.frameDuration when that was
\* given and 1000 / frameRate otherwise.
ConfiguredDuration ==
    mux.phase = "ready" =>
        \/ mux.m.options.frameDuration = Ms(2500)
        \/ /\ mux.m.options.frameRate # 0
           /\ mux.m.options.frameDuration = Ms(1000) \div mux.m.options.frameRate

\* An addFrame call with the arguments f that returns adds a frame of the
\* expected duration; with a numeric alpha it does what the call without
\* alpha and with that duration does.
AddFrameRule(f) ==
    (AddFrame(f.frame, f.alpha, f.overrideFrameDuration) /\ ~call'.threw) =>
        /\ TotalTime' - TotalTime = ExpectedDuration(f)
        /\ mux'.m.clusterFrameBuffer # <<>> =>
               mux'.m.clusterFrameBuffer[Len(mux'.m.clusterFrameBuffer)].duration
                   = ExpectedDuration(f)
        /\ f.alpha.t = "num" =>
               mux'.m = addFrame([m |-> mux.m, bb |-> BB, err |-> ""],
                                 f.frame, NoAlpha, ExpectedDuration(f)).m

(* C18: the frame of an addFrame call has the duration argument when that   *)
(* is given, else alpha when alpha is a number (the frame then has the      *)
(* alpha it has without an alpha argument), else the configured duration,   *)
(* which is frameDuration or 1000 / frameRate.                              *)
C18_FrameDuration ==
    /\ []ConfiguredDuration
    /\ [][\A f \in FrameInputs : AddFrameRule(f)]_vars

\* After a frame with a duration argument, which filled a cluster, a frame
\* of the configured duration and one with a numeric alpha are buffered.
C18_Witness ==
    /\ mux.m.clusterStartTime = Ms(5000)
    /\ Len(mux.m.clusterFrameBuffer) = 2
    /\ mux.m.clusterFrameBuffer[1].duration = mux.m.options.frameDuration
    /\ mux.m.clusterFrameBuffer[2].duration = Ms(125) \div 2
    /\ mux.m.options.frameDuration # Ms(125) \div 2

\* The size that the 4-byte size field at offset off of bs holds.
Size4At(bs, off) == DecodeVarInt(BytesAt(bs, off, 4))

\* The SimpleBlock read at offset off of bs: id 0xA3, a 4-byte size, the
\* 4-byte block header and the frame.
SimpleBlockAt(bs, off) ==
    [id |-> 163, header |-> BytesAt(bs, off + 5, 4),
     frame |-> BytesAt(bs, off + 9, Size4At(bs, off + 1) - 4), alpha |-> <<>>]

\* The BlockGroup read at offset off of bs, its Block's size being n: Block
\* (0xA1, size, header, frame), then BlockAdditions (0x75A1), BlockMore
\* (0xA6), BlockAddID (0xEE, 1 byte, 1) and BlockAdditional (0xA5), which
\* ends where the BlockGroup ends.  A group of another form has id 0.
BlockGroupAt(bs, off, n) ==
    [id |-> IF /\ bs[off + 6] = 161
               /\ BytesAt(bs, off + 10 + n, 2) = <<117, 161>>
               /\ bs[off + 10 + n + 7] = 166
               /\ BytesAt(bs, off + 10 + n + 11, 3) = <<238, 129, 1>>
               /\ bs[off + 10 + n + 15] = 165
               /\ bs[off + 10 + n + 16] > 128
               /\ off + 10 + n + 16 + (bs[off + 10 + n + 16] - 128)
                      = off + 5 + Size4At(bs, off + 1)
            THEN 160 ELSE 0,
     header |-> BytesAt(bs, off + 10, 4),
     frame |-> BytesAt(bs, off + 14, n - 4),
     alpha |-> BytesAt(bs, off + 10 + n + 16, bs[off + 10 + n + 16] - 128)]

\* The block containers read from offset off of bs to its end.
RECURSIVE ParseBlocks(_, _)
ParseBlocks(bs, off) ==
    IF off >= Len(bs) THEN <<>>
    ELSE IF bs[off + 1] = 163
    THEN <<SimpleBlockAt(bs, off)>> \o ParseBlocks(bs, off + 5 + Size4At(bs, off + 1))
    ELSE IF bs[off + 1] = 160
    THEN <<BlockGroupAt(bs, off, Size4At(bs, off + 6))>>
             \o ParseBlocks(bs, off + 5 + Size4At(bs, off + 1))
    ELSE <<[id |-> 0, header |-> <<>>, frame |-> <<>>, alpha |-> <<>>]>>

\* The block containers of a serialized cluster, which follow its Timecode.
ClusterBlocks(bs) == ParseBlocks(bs, 10 + (bs[10] - 128))

\* The block container a buffered frame is to have.
FrameBlock(frame) ==
    [id |-> IF frame.alpha # <<>> THEN 160 ELSE 163,
     header |-> <<129, frame.timecode \div 256, frame.timecode % 256,
                  IF frame.alpha # <<>> THEN 0 ELSE 128>>,
     frame |-> frame.frame, alpha |-> frame.alpha]

\* The frame that addFrame(f) hands to addFrameToCluster, as buffered.
BufferedFrame(f) ==
    LET s == [m |-> mux.m, bb |-> BB, err |-> ""]
        Alpha(webP) == IF webP = <<>> THEN <<>> ELSE extractKeyframeFromWebP(webP).frame
        Frame(keyframe) ==
            [frame |-> keyframe.frame,
             alpha |-> Alpha(frameAlphaOf(s, f.frame, f.alpha, keyframe).webP),
             timecode |-> Round(mux.m.clusterDuration)]
    IN  Frame(extractKeyframeFromWebP(f.frame.webP))

\* The frames a step writes as a cluster: the buffered frames, and after
\* them the frame of the call when the call is addFrame(f).
FlushedIn(frames) ==
    /\ Len(ClusterWrites') = Len(ClusterWrites) + 1
    /\ LET blocks == ClusterBlocks(ClusterWrites'[Len(ClusterWrites')].bytes0)
       IN  /\ Len(blocks) = Len(frames)
           /\ \A i \in 1..Len(frames) :
                  blocks[i] = FrameBlock([frame |-> frames[i].frame, alpha |-> frames[i].alpha,
                                          timecode |-> frames[i].timecode])

FlushRule ==
    /\ (MuxComplete /\ mux.m.clusterFrameBuffer # <<>>) => FlushedIn(mux.m.clusterFrameBuffer)
    /\ \A f \in FrameInputs :
           (AddFrame(f.frame, f.alpha, f.overrideFrameDuration)
               /\ ~call'.threw /\ mux'.m.clusterFrameBuffer = <<>>) =>
                   FlushedIn(Append(mux.m.clusterFrameBuffer, BufferedFrame(f)))

\* Frames with alpha, buffered or written, only with the transparent option.
AlphaOnlyTransparent ==
    ~mux.m.options.transparent =>
        /\ \A i \in 1..Len(mux.m.clusterFrameBuffer) : mux.m.clusterFrameBuffer[i].alpha = <<>>
        /\ \A i \in 1..Len(ClusterWrites) :
               \A j \in 1..Len(ClusterBlocks(ClusterWrites[i].bytes0)) :
                   ClusterBlocks(ClusterWrites[i].bytes0)[j].id = 163

(* C19: a cluster holds one block container per buffered frame, in order:   *)
(* a BlockGroup (Block with flags 0x00, then BlockAdditions, BlockMore,     *)
(* BlockAddID 1 and the alpha bitstream as BlockAdditional) iff the frame   *)
(* has an alpha bitstream, else a SimpleBlock with flags 0x80; the block    *)
(* header is 0x81 (track 1), the 2-byte timecode in the cluster, the flags. *)
(* A frame has an alpha bitstream only with the transparent option.         *)
C19_BlockContainers ==
    /\ []AlphaOnlyTransparent
    /\ [][FlushRule]_vars

\* A cluster of two frames is written, a SimpleBlock and a BlockGroup, the
\* second at a timecode that is not 0.
C19_Witness ==
    \E i \in 1..Len(ClusterWrites) :
        LET blocks == ClusterBlocks(ClusterWrites[i].bytes0)
        IN  /\ Len(blocks) = 2
            /\ blocks[1].id = 163
            /\ blocks[2].id = 160
            /\ blocks[2].alpha # <<>>
            /\ blocks[2].header[3] > 0

----------------------------------------------------------------------------
(* extractKeyframeFromWebP on its own: a WebP string is chosen and the      *)
(* function applied to it.                                                  *)

\* The number of chunks of a WebP string.
MaxChunks == 3

\* 'RIFF', a length, which the function does not read, and 'WEBP'.
RiffHeader == <<82, 73, 70, 70, 0, 0, 0, 0, 87, 69, 66, 80>>

\* Chunks: 'VP8 ' of 2 bytes, of 1 byte and a padding byte, and empty;
\* 'VP8X'; 'VP8L'; 'ALPH' of 1 byte and a padding byte, and of 2 bytes;
\* 'ICCP' of 4 bytes that read 'VP8 '.
ChunkKinds ==
    {<<86, 80, 56, 32, 2, 0, 0, 0, 1, 2>>,
     <<86, 80, 56, 32, 1, 0, 0, 0, 9, 0>>,
     <<86, 80, 56, 32, 0, 0, 0, 0>>,
     <<86, 80, 56, 88, 2, 0, 0, 0, 0, 0>>,
     <<86, 80, 56, 76, 2, 0, 0, 0, 5, 6>>,
     <<65, 76, 80, 72, 1, 0, 0, 0, 7, 0>>,
     <<65, 76, 80, 72, 2, 0, 0, 0, 7, 7>>,
     <<73, 67, 67, 80, 4, 0, 0, 0, 86, 80, 56, 32>>}

RECURSIVE Flatten(_)
Flatten(seqs) == IF seqs = <<>> THEN <<>> ELSE Head(seqs) \o Flatten(Tail(seqs))

WebPOf(chunks) == RiffHeader \o Flatten(chunks)

WebPInputs ==
    {WebPOf(chunks) : chunks \in UNION {[1..n -> ChunkKinds] : n \in 0..MaxChunks}}

InitWebP ==
    /\ mode = "mem"
    /\ buffer = <<>>
    /\ pos = 0
    /\ length = 0
    /\ chain = <<>>
    /\ heap = HeapInit
    /\ file = <<>>
    /\ mux = [phase |-> "new", m |-> closure(Options(FALSE, 0, 0, FALSE, "none")),
              calls |-> <<>>]
    /\ \E webP \in WebPInputs :
           call = [op |-> "webP", arg |-> webP, res |-> extractKeyframeFromWebP(<<>>)]

ExtractKeyframe ==
    /\ call.op = "webP"
    /\ call' = [op |-> "extractKeyframeFromWebP", arg |-> call.arg,
                res |-> extractKeyframeFromWebP(call.arg)]
    /\ UNCHANGED <<mode, buffer, pos, length, chain, heap, file, mux>>

NextWebP == ExtractKeyframe

SpecWebP == InitWebP /\ [][NextWebP]_vars

\* The FourCC and the length of the chunk header at offset p.
FourCCAt(webP, p) == substring(webP, p, p + 4)
LengthAt(webP, p) == byteStringToUint32LE(substring(webP, p + 4, p + 8))

\* The offsets of the chunk headers from p on, below limit: a chunk is
\* followed by one padding byte when its length is odd.
RECURSIVE ChunkOffsets(_, _, _)
ChunkOffsets(webP, p, limit) ==
    IF ~(p < limit) THEN <<>>
    ELSE <<p>> \o ChunkOffsets(webP, p + 8 + LengthAt(webP, p) + (LengthAt(webP, p) % 2), limit)

\* The payload of the first 'VP8 ' chunk among the chunks at the offsets
\* offs, with hasAlpha: an 'ALPH' chunk comes before it; not ok: there is none.
FirstVP8(webP, offs) ==
    LET hits == {i \in 1..Len(offs) : FourCCAt(webP, offs[i]) = <<86, 80, 56, 32>>}
        Found(i) ==
            [ok |-> TRUE,
             frame |-> substring(webP, offs[i] + 8, offs[i] + 8 + LengthAt(webP, offs[i])),
             hasAlpha |-> \E j \in 1..(i - 1) : FourCCAt(webP, offs[j]) = <<65, 76, 80, 72>>]
    IN  IF hits = {} THEN [ok |-> FALSE, frame |-> <<>>, hasAlpha |-> FALSE]
        ELSE Found(CHOOSE i \in hits : \A j \in hits : i <= j)

\* The result res of the function is the outcome out.
IsOutcome(res, out) ==
    /\ (res.err = "") = out.ok
    /\ out.ok => res.frame = out.frame /\ res.hasAlpha = out.hasAlpha

\* The original reading of C20: the chunk headers are scanned from byte 12
\* on, every header that lies within the input being read.
C20_ScansFromByte12 ==
    call.op = "extractKeyframeFromWebP" =>
        IsOutcome(call.res,
                  FirstVP8(call.arg, ChunkOffsets(call.arg, 12, Len(call.arg) - 7)))

(* C20: extractKeyframeFromWebP scans the chunk headers from the first      *)
(* place at or after byte 12 where 'VP8' is found (byte 12 when the first   *)
(* chunk is 'VP8 ', 'VP8L' or 'VP8X'), reading a header only when more than *)
(* 8 bytes are left from it; it returns the payload of the first 'VP8 '     *)
(* chunk with hasAlpha = TRUE iff an 'ALPH' chunk was scanned before it,    *)
(* other chunks being skipped by their length and a padding byte when that  *)
(* is odd, and it fails iff 'VP8' is not found or no 'VP8 ' chunk is.       *)
C20_ScansFromFirstVP8 ==
    call.op = "extractKeyframeFromWebP" =>
        IsOutcome(call.res,
                  IF indexOfVP8(call.arg, 12) < 0
                  THEN [ok |-> FALSE, frame |-> <<>>, hasAlpha |-> FALSE]
                  ELSE FirstVP8(call.arg,
                                ChunkOffsets(call.arg, indexOfVP8(call.arg, 12),
                                             Len(call.arg) - 8)))

\* The function has returned the frame of 'VP8X', 'ALPH' of odd length,
\* 'VP8 ', with hasAlpha.
C20_Witness ==
    /\ call.op = "extractKeyframeFromWebP"
    /\ call.arg = WebPOf(<<<<86, 80, 56, 88, 2, 0, 0, 0, 0, 0>>,
                           <<65, 76, 80, 72, 1, 0, 0, 0, 7, 0>>,
                           <<86, 80, 56, 32, 2, 0, 0, 0, 1, 2>>>>)
    /\ call.res.err = ""
    /\ call.res.hasAlpha
    /\ call.res.frame = <<1, 2>>

\* The function has failed on a lossless image.
C20_WitnessLossless ==
    /\ call.op = "extractKeyframeFromWebP"
    /\ call.arg = WebPOf(<<<<86, 80, 56, 76, 2, 0, 0, 0, 5, 6>>>>)
    /\ call.res.err # ""

----------------------------------------------------------------------------
(* The stream's integer writers on their own: a number, a width and a      *)
(* stream that holds 3 bytes are chosen and a writer applied.  Numbers are *)
(* below 2^31.                                                              *)

\* The numbers from 0 to MaxSmall are written, and those at the limits.
MaxSmall == 40

StreamNumbers ==
    (0..MaxSmall) \cup
    {126, 127, 128, 254, 255, 256, 16382, 16383, 16384, 65534, 65535, 65536,
     2097150, 2097151, 2097152, 16777214, 16777215, 16777216,
     268435454, 268435455, 268435456, 2147483647}

\* The widths of writeEBMLVarIntWidth and writeUnsignedIntBE, 0 for none.
StreamWidths == 0..5

InitStream ==
    /\ mode = "mem"
    /\ buffer = <<>>
    /\ pos = 0
    /\ length = 0
    /\ chain = <<>>
    /\ heap = HeapInit
    /\ file = <<>>
    /\ mux = [phase |-> "new", m |-> closure(Options(FALSE, 0, 0, FALSE, "none")),
              calls |-> <<>>]
    /\ \E n \in StreamNumbers, width \in StreamWidths :
           call = [op |-> "number", n |-> n, width |-> width,
                   stream |-> writeBytes(ArrayBufferDataStream(16), <<1, 2, 3>>),
                   written |-> ArrayBufferDataStream(16)]

StreamCall(op, written) ==
    /\ call.op = "number"
    /\ call' = [call EXCEPT !.op = op, !.written = written]
    /\ UNCHANGED <<mode, buffer, pos, length, chain, heap, file, mux>>

WriteEBMLVarInt ==
    /\ call.width = 0
    /\ StreamCall("writeEBMLVarInt", writeEBMLVarInt(call.stream, call.n))

WriteEBMLVarIntWidth ==
    /\ call.width > 0
    /\ StreamCall("writeEBMLVarIntWidth",
                  writeEBMLVarIntWidth(call.stream, call.n, call.width))

WriteUnsignedIntBE ==
    StreamCall("writeUnsignedIntBE", writeUnsignedIntBE(call.stream, call.n, call.width))

NextStream == WriteEBMLVarInt \/ WriteEBMLVarIntWidth \/ WriteUnsignedIntBE

SpecStream == InitStream /\ [][NextStream]_vars

\* The bytes the call has written, and that it has written nothing else.
WrittenBytes ==
    BytesAt(call.written.data, call.stream.pos, call.written.pos - call.stream.pos)
WrittenOnly ==
    /\ Len(call.written.data) = call.written.pos
    /\ BytesAt(call.written.data, 0, call.stream.pos) = call.stream.data

\* The inputs below 2^31 of 'Supports writing EMBL variable-length
\* integers' with their outputs.
VarIntTests ==
    {[input |-> 0, output |-> <<128>>],
     [input |-> 1, output |-> <<129>>],
     [input |-> 2, output |-> <<130>>],
     [input |-> 126, output |-> <<254>>],
     [input |-> 127, output |-> <<64, 127>>],
     [input |-> 128, output |-> <<64, 128>>],
     [input |-> 16382, output |-> <<127, 254>>],
     [input |-> 16383, output |-> <<32, 63, 255>>],
     [input |-> 16384, output |-> <<32, 64, 0>>],
     [input |-> 2097150, output |-> <<63, 255, 254>>],
     [input |-> 2097151, output |-> <<16, 31, 255, 255>>],
     [input |-> 2097152, output |-> <<16, 32, 0, 0>>],
     [input |-> 268435454, output |-> <<31, 255, 255, 254>>],
     [input |-> 268435455, output |-> <<8, 15, 255, 255, 255>>],
     [input |-> 268435456, output |-> <<8, 16, 0, 0, 0>>]}

\* w is the smallest width with n < 2^(7w) - 1; for n < 2^31 a width of 5
\* or more has room.
IsSmallestWidth(n, w) ==
    /\ w \in 1..8
    /\ w <= 4 => n < 2 ^ (7 * w) - 1
    /\ w > 1 => w <= 5 /\ n >= 2 ^ (7 * (w - 1)) - 1

\* bs is a varint of Len(bs) bytes: the marker is the first bit set, and
\* the bits after it are not all 1.
IsVarInt(bs) ==
    /\ bs[1] \div (2 ^ (8 - Len(bs))) = 1
    /\ \E i \in 1..Len(bs) :
           bs[i] # (IF i = 1 THEN 2 ^ (9 - Len(bs)) - 1 ELSE 255)

C21_WitnessWidth ==
    /\ call.op = "writeEBMLVarIntWidth" /\ call.n = 16383 /\ call.width = 5
    /\ WrittenBytes = <<8, 0, 0, 63, 255>>

\* The inputs below 2^31 of 'Supports writing big-endian integers' with
\* their outputs.
UnsignedIntTests ==
    {[input |-> 0, output |-> <<0>>],
     [input |-> 1, output |-> <<1>>],
     [input |-> 2, output |-> <<2>>],
     [input |-> 254, output |-> <<254>>],
     [input |-> 255, output |-> <<255>>],
     [input |-> 256, output |-> <<1, 0>>],
     [input |-> 65534, output |-> <<255, 254>>],
     [input |-> 65535, output |-> <<255, 255>>],
     [input |-> 65536, output |-> <<1, 0, 0>>],
     [input |-> 16777214, output |-> <<255, 255, 254>>],
     [input |-> 16777215, output |-> <<255, 255, 255>>],
     [input |-> 16777216, output |-> <<1, 0, 0, 0>>]}

IsHeaderWrite(t) == IsWrite(t) /\ BytesAt(t.bytes0, 0, 4) = <<26, 69, 223, 163>>

(* C23: the header is written once, as the first write of the sink and at   *)
(* offset 0, so before every Cluster and Cues write: by the first call,     *)
(* addFrame or complete(); no later call writes it again.                   *)
C23_HeaderWrittenOnce ==
    mux.phase = "ready" =>
        /\ mux.m.writtenHeader = (Len(mux.calls) >= 1)
        /\ (chain # <<>>) = (Len(mux.calls) >= 1)
        /\ \A i \in 1..Len(chain) : IsHeaderWrite(chain[i]) = (i = 1)
        /\ chain # <<>> => chain[1].offset = 0 /\ chain[1].isAppend

\* Three calls have returned, frames and a complete() among them, and a
\* cluster and a Cues element are written after the header.
C23_Witness ==
    /\ Len(mux.calls) = 3
    /\ \A i \in 1..3 : ~mux.calls[i].threw
    /\ mux.calls[1].op = "addFrame"
    /\ \E i \in 2..3 : mux.calls[i].op = "complete"
    /\ Len(ClusterWrites) >= 1
    /\ \E i \in 2..Len(chain) : IsCuesWrite(chain[i])
    /\ IsHeaderWrite(chain[1])

\* The first call is complete() and a frame is added after it.
C23_WitnessComplete ==
    /\ Len(mux.calls) >= 2
    /\ mux.calls[1].op = "complete"
    /\ mux.calls[2].op = "addFrame"
    /\ IsHeaderWrite(chain[1])

\* The write chain has drained and no task has failed.
DrainedWithoutFailure == \A i \in 1..Len(chain) : chain[i].st = "done"

\* The chunks lie one after the other from offset 0, in list order.
Contiguous(buf) ==
    /\ buf # <<>> => buf[1].offset = 0
    /\ \A i \in 1..(Len(buf) - 1) : buf[i + 1].offset = buf[i].offset + buf[i].length

RECURSIVE SumLengths(_)
SumLengths(buf) == IF buf = <<>> THEN 0 ELSE Head(buf).length + SumLengths(Tail(buf))

(* C24: in memory mode, when the write chain has drained and no write has   *)
(* failed, the chunks in list order are contiguous from offset 0 (so sorted *)
(* and not overlapping), their lengths sum to the sink's length, there is   *)
(* one chunk per append (an overwrite adds none), and the blob of a         *)
(* complete() that is the last call has `length` bytes.                     *)
C24_ChunkListContiguous ==
    (mode = "mem" /\ DrainedWithoutFailure) =>
        /\ Contiguous(buffer)
        /\ SumLengths(buffer) = length
        /\ Len(buffer) = Len(SelectSeq(chain, IsAppendWrite))
        /\ (chain # <<>> /\ IsComplete(chain[Len(chain)])) =>
               Len(chain[Len(chain)].blob) = length

----------------------------------------------------------------------------
(* writeEBML on its own: a tree and a file offset are chosen and the tree   *)
(* written to a stream that holds 3 bytes.                                  *)

\* The number of children of a list element.
MaxChildren == 2

\* Children: elements of a number, of a number of a given size, of a string,
\* of a float and of bytes, and bytes that are no element.
EBMLLeaves ==
    {El(215, NumD(1)), El(2807729, NumD(1000000)), ElSized(21420, NumD(300), 5),
     El(134, Str(<<86, 95, 86, 80, 56>>)), segmentDuration0,
     El(21419, U8(<<28, 83, 187, 107>>)), U8(<<129, 0, 0, 128>>)}

\* A list element: a SimpleBlock id with a size to be measured, a Cluster id
\* with either of the unknown sizes.
EBMLLists ==
    {ElSized(id, Arr(items), size) :
        id \in {163, 524531317},
        items \in UNION {[1..n -> EBMLLeaves] : n \in 0..MaxChildren},
        size \in {0, EBML_SIZE_UNKNOWN, EBML_SIZE_UNKNOWN_5_BYTES}}

\* The trees written: a list element, a list element within another, and an
\* array of siblings as the header is one.
EBMLTrees ==
    EBMLLists
    \cup {El(19899, Arr(<<El(215, NumD(1)), e>>)) : e \in EBMLLists}
    \cup {Arr(<<e, El(408125543, Arr(<<e>>))>>) : e \in {l \in EBMLLists : l.id = 163}}

InitEBML ==
    /\ mode = "mem"
    /\ buffer = <<>>
    /\ pos = 0
    /\ length = 0
    /\ chain = <<>>
    /\ heap = HeapInit
    /\ file = <<>>
    /\ mux = [phase |-> "new", m |-> closure(Options(FALSE, 0, 0, FALSE, "none")),
              calls |-> <<>>]
    /\ \E ebml \in EBMLTrees, bufferFileOffset \in {0, 100} :
           call = [op |-> "ebml", ebml |-> ebml, bufferFileOffset |-> bufferFileOffset,
                   stream |-> writeBytes(ArrayBufferDataStream(256), <<1, 2, 3>>),
                   written |-> [buf |-> ArrayBufferDataStream(256), e |-> ebml]]

WriteEBML ==
    /\ call.op = "ebml"
    /\ call' = [call EXCEPT !.op = "writeEBML",
                            !.written = writeEBML(call.stream, call.bufferFileOffset, call.ebml)]
    /\ UNCHANGED <<mode, buffer, pos, length, chain, heap, file, mux>>

NextEBML == WriteEBML

SpecEBML == InitEBML /\ [][NextEBML]_vars

\* The bytes a written node takes in the stream.
RECURSIVE TotalLen(_)
PayloadLen(e) ==
    IF e.data.t = "arr" THEN TotalLen(e.data)
    ELSE IF e.data.t = "str" THEN Len(UTF8(e.data.s))
    ELSE IF e.data.t = "num" THEN e.size
    ELSE IF e.data.t = "f64" THEN 8
    ELSE Len(e.data.b)
RECURSIVE SumTotalLen(_)
SumTotalLen(items) ==
    IF items = <<>> THEN 0 ELSE TotalLen(Head(items)) + SumTotalLen(Tail(items))
TotalLen(node) ==
    IF node.t = "arr" THEN SumTotalLen(node.items)
    ELSE IF node.t = "str" THEN Len(UTF8(node.s))
    ELSE IF node.t = "u8" THEN Len(node.b)
    ELSE (node.dataOffset - node.offset) + PayloadLen(node)

\* The bytes [from, to) of the written stream, by absolute offset.
WrittenAt(from, to) ==
    BytesAt(call.written.buf.data, from - call.bufferFileOffset, to - from)

\* The size field of the written element e is right: one 0xFF or the five
\* bytes of the unknown sizes, else for a list 4 bytes, a varint of the
\* bytes of the children, which is e.size.
SizeFieldOk(e, idWidth) ==
    IF e.data.t # "arr" THEN e.dataOffset - e.offset - idWidth >= 1
    ELSE IF e.size = EBML_SIZE_UNKNOWN
    THEN WrittenAt(e.offset + idWidth, e.dataOffset) = <<255>>
    ELSE IF e.size = EBML_SIZE_UNKNOWN_5_BYTES
    THEN WrittenAt(e.offset + idWidth, e.dataOffset) = <<15, 255, 255, 255, 255>>
    ELSE /\ e.dataOffset - e.offset - idWidth = 4
         /\ WrittenAt(e.offset + idWidth, e.dataOffset)[1] \div 16 = 1
         /\ DecodeVarInt(WrittenAt(e.offset + idWidth, e.dataOffset)) = e.size
         /\ e.size = TotalLen(e.data)

\* The written node lies at the absolute offset p: an element has its id
\* there, offset = p, a size field up to dataOffset, and its children, one
\* after the other, from dataOffset on.
RECURSIVE NodeOk(_, _)
RECURSIVE ArrOk(_, _, _)
ArrOk(items, i, p) ==
    i > Len(items) \/ (NodeOk(items[i], p) /\ ArrOk(items, i + 1, p + TotalLen(items[i])))
NodeOk(node, p) ==
    IF node.t = "arr" THEN ArrOk(node.items, 1, p)
    ELSE IF node.t \in {"str", "u8"} THEN TRUE
    ELSE /\ node.offset = p
         /\ WrittenAt(p, p + measureUnsignedInt(node.id))
                = BE(node.id, measureUnsignedInt(node.id))
         /\ SizeFieldOk(node, measureUnsignedInt(node.id))
         /\ node.data.t = "arr" => ArrOk(node.data.items, 1, node.dataOffset)

(* C25: writeEBML gives every element offset = the absolute offset of its   *)
(* first id byte and dataOffset = that of its first payload byte, the id    *)
(* and the size field lying between; a list element of a size that is not   *)
(* unknown has as size field the 4-byte varint of the bytes its children    *)
(* took, which is its size, and the cursor is left at the children's end.   *)
C25_SizesAndOffsets ==
    call.op = "writeEBML" =>
        /\ NodeOk(call.written.e, call.stream.pos + call.bufferFileOffset)
        /\ call.written.buf.pos = call.stream.pos + TotalLen(call.written.e)
        /\ Len(call.written.buf.data) = call.written.buf.pos
        /\ BytesAt(call.written.buf.data, 0, call.stream.pos) = call.stream.data

\* A list element with two children is written within another at a file
\* offset that is not 0, and its size is measured.
C25_Witness ==
    /\ call.op = "writeEBML"
    /\ call.bufferFileOffset = 100
    /\ call.written.e.t = "el"
    /\ call.written.e.id = 19899
    /\ call.written.e.offset = 103
    /\ call.written.e.data.items[2].id = 163
    /\ Len(call.written.e.data.items[2].data.items) = 2
    /\ call.written.e.data.items[2].size > 0
    /\ call.written.e.size > call.written.e.data.items[2].size

\* The muxer as a call finds it.
MuxState == [m |-> mux.m, bb |-> BB, err |-> ""]

\* The function that gave r from s has not thrown and has left the sink's
\* pos and length as they were.
KeepsPosAndLength(s, r) ==
    /\ r.err = ""
    /\ r.bb.pos = s.bb.pos
    /\ r.bb.length = s.bb.length

\* The tasks of the k-th task's complete(): Cues, the three rewrites, and
\* the sink's complete, which is the k-th.
CompletionTasksOk(k) ==
    /\ k >= 6
    /\ IsCuesWrite(chain[k - 4])
    /\ chain[k - 4].isAppend
    /\ \A i \in (k - 3)..(k - 1) :
           /\ IsWrite(chain[i])
           /\ ~chain[i].isAppend
           /\ chain[i].len0 = chain[k - 4].offset + chain[k - 4].length
           /\ chain[i].offset + chain[i].length <= Len(chain[1].bytes0)
    /\ chain[k - 3].offset = mux.m.seekHead.dataOffset
    /\ chain[k - 3].length = mux.m.seekHead.size
    /\ Len(chain[k - 3].bytes0) = mux.m.seekHead.size
    /\ chain[k - 2].offset = mux.m.segmentDuration.dataOffset
    /\ chain[k - 2].length = 8
    /\ chain[k - 1].offset = mux.m.ebmlSegment.offset
    /\ chain[k - 1].length = 9

\* The id of SegmentInfo follows the SeekHead's payload in the bytes bs,
\* which from there to the payload of Duration are those of the header.
SegmentInfoKept(bs) ==
    /\ BytesAt(chain[1].bytes0, mux.m.seekHead.dataOffset + mux.m.seekHead.size, 4)
           = seekPointIds[2]
    /\ BytesAt(bs, mux.m.seekHead.dataOffset + mux.m.seekHead.size,
               mux.m.segmentDuration.dataOffset
                   - (mux.m.seekHead.dataOffset + mux.m.seekHead.size))
           = BytesAt(chain[1].bytes0, mux.m.seekHead.dataOffset + mux.m.seekHead.size,
                     mux.m.segmentDuration.dataOffset
                         - (mux.m.seekHead.dataOffset + mux.m.seekHead.size))

(* C26: each of the three rewrites of complete() leaves the sink's pos and  *)
(* length as they were, at the end of the Cues element; the SeekHead        *)
(* payload written again has seekHead.size bytes, the length of the         *)
(* payload written with the header, so that the bytes of SegmentInfo,       *)
(* which follow it, are not altered.                                        *)
C26_PatchesKeepPosAndLength ==
    mux.m.writtenHeader =>
        /\ pos = length
        /\ KeepsPosAndLength(MuxState, rewriteSeekHead(MuxState))
        /\ KeepsPosAndLength(MuxState, rewriteDuration(MuxState))
        /\ KeepsPosAndLength(MuxState, rewriteSegmentLength(MuxState))
        /\ \A k \in 1..Len(chain) : IsComplete(chain[k]) => CompletionTasksOk(k)
        /\ (chain # <<>> /\ IsComplete(chain[Len(chain)])) =>
               pos = chain[Len(chain) - 4].offset + chain[Len(chain) - 4].length
        /\ \A k \in 1..Len(chain) : OutputReady(k) => SegmentInfoKept(Output(k))

\* complete() has resolved after a cluster was written: the SeekHead written
\* again holds the offset of Cues.
C26_Witness ==
    /\ Len(ClusterWrites) >= 1
    /\ chain # <<>>
    /\ IsComplete(chain[Len(chain)])
    /\ OutputReady(Len(chain))
    /\ SeekPositionIn(Output(Len(chain)), 1) > 0
    /\ pos = length

\* No task after the i-th has written to the file yet.
LastToWrite(i) == \A j \in (i + 1)..Len(chain) : chain[j].st \in {"queued", "conv"}

(* C27: with a file descriptor, a write of l bytes issued at position p     *)
(* writes l bytes, those the data held, to [p, p + l) of the file and none  *)
(* elsewhere, also when the data is a view of a part of its ArrayBuffer.    *)
C27_FsWriteExact ==
    mode = "fs" =>
        \A i \in 1..Len(chain) :
            IsDoneWrite(chain[i]) =>
                /\ chain[i].tw = chain[i].length
                /\ LastToWrite(i) =>
                       /\ BytesAt(file, chain[i].offset, chain[i].length) = chain[i].bytes0
                       /\ Len(file) <= length

\* The sink in its three modes with the host at work: a callback that can
\* run does run, a conversion ends, and fs.write calls back, each time with
\* one byte at least.
SpecModesFair ==
    /\ SpecModes
    /\ WF_vars(\E i \in 1..Len(chain) : RunTask(i))
    /\ WF_vars(\E i \in 1..Len(chain) : FsConverted(i))
    /\ WF_vars(\E i \in 1..Len(chain) : \E written \in 0..Len(heap) : FsWriteCallback(i, written))

\* A write to the file is under way only while bytes are left, and is done
\* when all bytes of the buffer handed to fs.write are written; a task has
\* not started before the task before it has settled.
FsWriteProgress ==
    mode = "fs" =>
        /\ \A i \in 1..Len(chain) :
               /\ chain[i].st = "fsWrite" =>
                      \/ chain[i].tw < Len(FsBuffer(chain[i].data, heap))
                      \/ chain[i].tw = 0
               /\ IsDoneWrite(chain[i]) => chain[i].tw = Len(FsBuffer(chain[i].data, heap))
        /\ \A i, j \in 1..Len(chain) :
               (i < j /\ chain[j].st # "queued") => Settled(chain[i])

\* A callback of fs.write that leaves bytes to write is followed by an
\* fs.write of the rest: the bytes from buffer offset totalWritten on go to
\* the file at entry.offset + totalWritten.
FsWriteResumes ==
    \A i \in 1..Len(chain) :
        (mode = "fs" /\ chain[i].st = "fsWrite" /\ chain'[i].tw > chain[i].tw) =>
            /\ file' = Overlay(file, chain[i].offset + chain[i].tw,
                               SubSeq(FsBuffer(chain[i].data, heap),
                                      chain[i].tw + 1, chain'[i].tw))
            /\ chain'[i].st = IF chain'[i].tw < Len(FsBuffer(chain[i].data, heap))
                              THEN "fsWrite" ELSE "done"

Fits(stream) == stream.pos <= stream.cap

\* The sizes of the frames and alpha bitstreams of the blocks.
RECURSIVE BlockSizes(_)
BlockSizes(blocks) ==
    IF blocks = <<>> THEN 0
    ELSE Len(Head(blocks).frame) + Len(Head(blocks).alpha) + BlockSizes(Tail(blocks))

\* The number of clusters written before the i-th task, each with a cue.
CuesBefore(i) == Len(SelectSeq(SubSeq(chain, 1, i - 1), IsClusterWrite))

\* What has been serialized was within its stream: the bytes handed to the
\* sink are those before the cursor.
SerializedFits(i) ==
    /\ IsHeaderWrite(chain[i]) => Len(chain[i].bytes0) <= 256
    /\ IsClusterWrite(chain[i]) =>
           Len(chain[i].bytes0) <= BlockSizes(ClusterBlocks(chain[i].bytes0))
                                       + 64 * Len(ClusterBlocks(chain[i].bytes0))
    /\ IsCuesWrite(chain[i]) => Len(chain[i].bytes0) <= 16 + 32 * CuesBefore(i)
    /\ IsComplete(chain[i]) =>
           /\ Len(chain[i - 3].bytes0) <= mux.m.seekHead.size
           /\ Len(chain[i - 2].bytes0) <= 8
           /\ Len(chain[i - 1].bytes0) <= 10

\* The cluster that flushClusterFrameBuffer() would serialize now.
BufferedCluster ==
    LET frames == mux.m.clusterFrameBuffer
        cluster == createCluster(Round(mux.m.clusterStartTime))
    IN  writeEBML(ArrayBufferDataStream(rawImageSize(frames) + Len(frames) * 64), pos,
                  [cluster EXCEPT !.data.items =
                       @ \o [i \in 1..Len(frames) |-> createContainerForKeyframe(frames[i])]])

\* The Cues that writeCues() would serialize now.
CuesNow ==
    writeEBML(ArrayBufferDataStream(16 + Len(mux.m.cues) * 32), pos,
              El(475249515, Arr(mux.m.cues)))

RECURSIVE DurationOfFirst(_, _)
DurationOfFirst(frames, n) ==
    IF n = 0 THEN 0 ELSE DurationOfFirst(frames, n - 1) + frames[n].duration

\* The timecode in a block header: bytes 2 and 3, big-endian.
BlockTimecode(block) == block.header[2] * 256 + block.header[3]

\* The frames of the cluster being built: the cluster's duration is the sum
\* of theirs, and each has the rounded sum of those before it as timecode.
BufferedTimecodesOk ==
    LET frames == mux.m.clusterFrameBuffer
    IN  /\ mux.m.clusterDuration = DurationOfFirst(frames, Len(frames))
        /\ \A i \in 1..Len(frames) :
               /\ frames[i].timecode = Round(DurationOfFirst(frames, i - 1))
               /\ frames[i].timecode \in 0..MAX_CLUSTER_DURATION_MSEC
               /\ i = 1 => frames[i].timecode = 0

\* The blocks of the clusters written: timecodes from 0 to 5000, which a
\* signed 16-bit field holds, and 0 in the first block.
WrittenTimecodesOk ==
    \A i \in 1..Len(ClusterWrites) :
        LET blocks == ClusterBlocks(ClusterWrites[i].bytes0)
        IN  /\ blocks # <<>>
            /\ BlockTimecode(blocks[1]) = 0
            /\ \A j \in 1..Len(blocks) :
                   /\ BlockTimecode(blocks[j]) \in 0..MAX_CLUSTER_DURATION_MSEC
                   /\ BlockTimecode(blocks[j]) < 32768

(* C30: the timecode of a frame in its cluster is the duration the cluster  *)
(* had before the frame, rounded; it lies in 0..5000, so that a signed      *)
(* 16-bit field holds it; the first frame of a cluster has timecode 0.      *)
C30_BlockTimecodes ==
    /\ BufferedTimecodesOk
    /\ WrittenTimecodesOk

\* A cluster is written whose second frame has the timecode 5000, the
\* first having lasted 4999.5 ms; the next cluster has begun, with a frame
\* at 0.
C30_Witness ==
    /\ Len(ClusterWrites) = 1
    /\ Len(ClusterBlocks(ClusterWrites[1].bytes0)) = 2
    /\ BlockTimecode(ClusterBlocks(ClusterWrites[1].bytes0)[2]) = 5000
    /\ Len(mux.m.clusterFrameBuffer) = 1
    /\ mux.m.clusterFrameBuffer[1].timecode = 0
    /\ mux.m.clusterDuration > 0

\* The durations of the frames added by the calls that returned, in order.
RECURSIVE FrameDurations(_)
FrameDurations(n) ==
    IF n = 0 THEN <<>>
    ELSE FrameDurations(n - 1)
             \o (IF IsFrameCall(mux.calls[n]) THEN <<mux.calls[n].duration>> ELSE <<>>)

\* The durations are whole numbers of milliseconds.
IntegerDurations(ds) == \A i \in 1..Len(ds) : ds[i] % TicksPerMs = 0

\* The first n of the durations, added up.
RECURSIVE SumOfFirst(_, _)
SumOfFirst(ds, n) == IF n = 0 THEN 0 ELSE SumOfFirst(ds, n - 1) + ds[n]

\* The times of the blocks of a serialized cluster: the cluster's Timecode
\* plus the timecode in the block.
BlockTimes(bs) ==
    [j \in 1..Len(ClusterBlocks(bs)) |->
        ClusterTimecode(bs) + BlockTimecode(ClusterBlocks(bs)[j])]

\* The times of the blocks of the first n clusters written, in file order.
RECURSIVE WrittenTimes(_)
WrittenTimes(n) ==
    IF n = 0 THEN <<>> ELSE WrittenTimes(n - 1) \o BlockTimes(ClusterWrites[n].bytes0)

\* Each frame written is at the sum of the durations of the frames before it.
FramesAtSumOfDurations ==
    LET ds == FrameDurations(Len(mux.calls))
        times == WrittenTimes(Len(ClusterWrites))
    IN  IntegerDurations(ds) =>
            /\ Len(times) <= Len(ds)
            /\ \A k \in 1..Len(times) : Ms(times[k]) = SumOfFirst(ds, k - 1)

\* Cluster Timecodes and CueTimes do not decrease, and the first are 0.
TimecodesAscend ==
    /\ \A i \in 1..Len(ClusterWrites) :
           /\ i = 1 => ClusterTimecode(ClusterWrites[i].bytes0) = 0
           /\ i > 1 => ClusterTimecode(ClusterWrites[i - 1].bytes0)
                           <= ClusterTimecode(ClusterWrites[i].bytes0)
    /\ Len(mux.m.cues) = Len(ClusterWrites)
    /\ \A i \in 1..Len(mux.m.cues) :
           /\ CueTime(mux.m.cues[i]) = ClusterTimecode(ClusterWrites[i].bytes0)
           /\ i > 1 => CueTime(mux.m.cues[i - 1]) <= CueTime(mux.m.cues[i])

(* C31: with frame durations in whole milliseconds, the Timecode of a       *)
(* frame's cluster plus the frame's timecode in the cluster is the sum of   *)
(* the durations of the frames added before it; the Timecodes of the        *)
(* clusters, and the CueTimes, do not decrease in file order, and the first *)
(* cluster has Timecode 0.                                                  *)
C31_AbsoluteTimecodes ==
    mux.phase = "ready" =>
        /\ FramesAtSumOfDurations
        /\ TimecodesAscend

\* A frame of 5000 ms makes the first cluster; a frame of 1250 ms is
\* written by complete() in a second cluster, with Timecode 5000.
C31_Witness ==
    /\ mux.phase = "ready"
    /\ FrameDurations(Len(mux.calls)) = <<Ms(5000), Ms(1250)>>
    /\ Len(ClusterWrites) = 2
    /\ WrittenTimes(2) = <<0, 5000>>
    /\ ClusterTimecode(ClusterWrites[2].bytes0) = 5000
    /\ CueTime(mux.m.cues[2]) = 5000

\* The i-th callback is a write that failed the containment check.
FailedContainmentIn(c, i) ==
    /\ i <= Len(c)
    /\ IsWrite(c[i])
    /\ c[i].st = "failed"
    /\ c[i].err = "Overwrite crosses blob boundaries"

FailedContainment(i) == FailedContainmentIn(chain, i)

\* Behind a write that failed the containment check nothing runs: a
\* callback waits or is passed over with the same rejection, and no
\* complete() has a blob.
RejectionPassesDown ==
    \A i \in 1..Len(chain) :
        FailedContainment(i) =>
            /\ ~chain[i].isAppend
            /\ \A j \in (i + 1)..Len(chain) :
                   /\ chain[j].st \in {"queued", "skipped"}
                   /\ chain[j].st = "skipped" => chain[j].err = chain[i].err
                   /\ chain[j].res = ""

\* A write() that returns has moved pos by the size of its data and has
\* raised length to pos where pos lies beyond it, before any callback runs.
WriteAdvancesAtCall ==
    Len(chain') = Len(chain) + 1 =>
        LET t == chain'[Len(chain')]
        IN  IsWrite(t) =>
                /\ t.st = "queued"
                /\ t.offset = pos
                /\ t.len0 = length
                /\ pos' = pos + t.length
                /\ length' = Max(length, pos')

\* The step on which the containment check fails changes neither position
\* nor chunk list, and once it has failed the chunk list stays as it is.
ChunkListFrozen ==
    (\E i \in 1..Len(chain') : FailedContainmentIn(chain', i)) =>
        /\ buffer' = buffer
        /\ heap' = heap
        /\ (\E i \in 1..Len(chain) :
                ~FailedContainmentIn(chain, i) /\ FailedContainmentIn(chain', i)) =>
               (pos' = pos /\ length' = length)

\* As the claim has it: length, too, has grown by the size of the write
\* that failed.
C32_LengthAdvancedBySize ==
    mode = "mem" =>
        \A i \in 1..Len(chain) :
            FailedContainment(i) => length >= chain[i].len0 + chain[i].length

(* C32: in memory a write that fails the containment check shows only as a  *)
(* rejection of the chain.  When write() returned, pos had moved by the     *)
(* size of the data and length was the larger of the old length and the new *)
(* pos; no write queued or issued later is applied to the chunk list, and   *)
(* no later complete() has a blob: each is rejected.                        *)
C32_FailedWriteRejectsChain ==
    /\ [](mode = "mem" => RejectionPassesDown)
    /\ [][mode = "mem" => (WriteAdvancesAtCall /\ ChunkListFrozen)]_vars

\* An overwrite of 2 bytes at 0 over the chunks [0, 1) and [1, 3) has
\* failed, with pos 2 and length 3 as write() left them.
C32_Witness ==
    /\ mode = "mem"
    /\ Len(chain) = 3
    /\ FailedContainment(3)
    /\ chain[3].offset = 0 /\ chain[3].length = 2 /\ chain[3].len0 = 3
    /\ pos = 2
    /\ length = 3
    /\ Len(buffer) = 2

\* A complete() issued after the failed overwrite is rejected with its
\* error, the chunk list as it was.
C32_WitnessComplete ==
    /\ mode = "mem"
    /\ Len(chain) = 3
    /\ FailedContainment(2)
    /\ IsComplete(chain[3])
    /\ chain[3].st = "skipped"
    /\ chain[3].err = "Overwrite crosses blob boundaries"
    /\ Len(buffer) = 1

(* C33: write(data) throws 'Failed to determine size of element' whenever   *)
(* the measured size of the data is not a positive integer, zero-length     *)
(* data included, and then pos, length, the chunk list and the chain of     *)
(* callbacks are as they were.                                              *)
C33_WriteThrowsOnEmpty ==
    [][\A d \in Items :
           (Write(d) /\ measureData(d).v < 1) =>
               /\ call'.threw
               /\ pos' = pos
               /\ length' = length
               /\ buffer' = buffer
               /\ chain' = chain]_vars

----------------------------------------------------------------------------
(* The loop of extractKeyframeFromWebP step by step: call holds the WebP    *)
(* string, the cursor, hasAlpha and the number of times the loop's body has *)
(* run.                                                                     *)

\* The chunk length read without the final >>> 0: a | b << 8 | c << 16 |
\* d << 24, which is negative when d is 128 or more.
chunkLengthAt_Signed(webP, p) ==
    IF charCodeAt(webP, p + 3) >= 128
    THEN charCodeAt(webP, p) + 256 * charCodeAt(webP, p + 1)
         + 65536 * charCodeAt(webP, p + 2) + 16777216 * (charCodeAt(webP, p + 3) - 256)
    ELSE byteStringToUint32LE(substring(webP, p, p + 4))

\* The chunk length read at offset p, (a | b << 8 | c << 16 | d << 24) >>> 0.
\* A length of 2^31 or more, beyond the integers at hand here, stands as
\* 2^30: as the length itself it leads past the end of every string of the
\* model.
chunkLengthAt(webP, p) ==
    IF charCodeAt(webP, p + 3) >= 128 THEN 2 ^ 30
    ELSE byteStringToUint32LE(substring(webP, p, p + 4))

\* Chunks: 'VP8 ' of 2 bytes; 'VP8X'; 'ALPH' of 1 byte and a padding byte;
\* 'VP8L' without data, of the length 0xFFFFFFF8; 'VP8X' of the length 0
\* at the end of which 'VP8 ' is read.
ScanChunkKinds ==
    {<<86, 80, 56, 32, 2, 0, 0, 0, 1, 2>>,
     <<86, 80, 56, 88, 2, 0, 0, 0, 0, 0>>,
     <<65, 76, 80, 72, 1, 0, 0, 0, 7, 0>>,
     <<86, 80, 56, 76, 248, 255, 255, 255>>,
     <<86, 80, 56, 88, 0, 0, 0, 0>>}

ScanInputs ==
    {WebPOf(chunks) : chunks \in UNION {[1..n -> ScanChunkKinds] : n \in 0..MaxChunks}}

InitScan ==
    /\ mode = "mem"
    /\ buffer = <<>>
    /\ pos = 0
    /\ length = 0
    /\ chain = <<>>
    /\ heap = HeapInit
    /\ file = <<>>
    /\ mux = [phase |-> "new", m |-> closure(Options(FALSE, 0, 0, FALSE, "none")),
              calls |-> <<>>]
    /\ \E webP \in ScanInputs :
           call = [op |-> "call", arg |-> webP, cursor |-> 0, hasAlpha |-> FALSE,
                   iterations |-> 0, frame |-> <<>>]

\* webP.indexOf('VP8', 12) and the throw when it finds nothing.
ScanStart ==
    /\ call.op = "call"
    /\ call' = IF indexOfVP8(call.arg, 12) = 0 - 1
               THEN [call EXCEPT !.op = "threw"]
               ELSE [call EXCEPT !.op = "loop", !.cursor = indexOfVP8(call.arg, 12)]
    /\ UNCHANGED <<mode, buffer, pos, length, chain, heap, file, mux>>

\* The loop's test and, when it holds, its body once; the throw behind the
\* loop when it does not.
ScanStep ==
    /\ call.op = "loop"
    /\ LET webP == call.arg
           cursor == call.cursor
           fourCC == substring(webP, cursor, cursor + 4)
           chunkLength == chunkLengthAt(webP, cursor + 4)
       IN  call' = IF ~(cursor < Len(webP) - 8)
                   THEN [call EXCEPT !.op = "threw"]
                   ELSE IF fourCC = <<86, 80, 56, 32>>
                   THEN [call EXCEPT !.op = "returned", !.cursor = cursor + 8,
                                     !.iterations = @ + 1,
                                     !.frame = substring(webP, cursor + 8,
                                                         cursor + 8 + chunkLength)]
                   ELSE [call EXCEPT !.cursor = cursor + 8 + chunkLength + (chunkLength % 2),
                                     !.iterations = @ + 1,
                                     !.hasAlpha = @ \/ fourCC = <<65, 76, 80, 72>>]
    /\ UNCHANGED <<mode, buffer, pos, length, chain, heap, file, mux>>

NextScan == ScanStart \/ ScanStep

\* The function runs on until it returns or throws.
SpecScan == InitScan /\ [][NextScan]_vars /\ WF_vars(NextScan)

\* The body has run (length - 12) / 8 + 1 times at most.
IterationsBounded == call.iterations <= (Len(call.arg) - 12) \div 8 + 1

\* A run of the body moves the cursor on by 8 at least.
CursorAdvances ==
    call'.iterations > call.iterations => call'.cursor >= call.cursor + 8

\* Without a length of 2^31 or more in the string, the function's result.
ScanResultOk ==
    (call.op \in {"returned", "threw"}
        /\ \A p \in 0..(Len(call.arg) - 1) : call.arg[p + 1] < 128) =>
            /\ (call.op = "threw") = (extractKeyframeFromWebP(call.arg).err # "")
            /\ call.op = "returned" =>
                   /\ call.frame = extractKeyframeFromWebP(call.arg).frame
                   /\ call.hasAlpha = extractKeyframeFromWebP(call.arg).hasAlpha

C34_WitnessReturned ==
    /\ call.op = "returned"
    /\ call.iterations = 3
    /\ call.hasAlpha
    /\ call.frame = <<1, 2>>

====
